---- MODULE Spec2Model ----
(***************************************************************************)
(* Model of server.py: the OCR tool server that validates a path, selects  *)
(* the helper executable, runs it, normalizes its JSON output and          *)
(* aggregates batches.                                                     *)
(*                                                                         *)
(* JSON values are tagged records: [t |-> "str", v |-> s],                 *)
(* [t |-> "num", v |-> n] for an integer, [t |-> "real", v |-> text] for a *)
(* float given by its repr, [t |-> "bool", v |-> b], [t |-> "null"],       *)
(* [t |-> "list", v |-> seq] and [t |-> "obj", v |-> dict]. A Python dict  *)
(* is a function whose DOMAIN is its key set, so `k in d` is               *)
(* k \in DOMAIN d. A path is the sequence of its segments and a segment a  *)
(* sequence of characters.                                                 *)
(***************************************************************************)
EXTENDS Integers, Sequences, FiniteSets, TLC

VARIABLES
    nPc, nDoc, nOut, nOut2,           \* the normalizer applied to a document
    binExists, binExec, scriptExists, \* HELPER_BIN and HELPER_SCRIPT on disk
    buildDir,                         \* what is at HELPER_BIN.parent: "absent", "dir",
                                      \* or "file" for anything that is no directory
    compiled,                         \* a compile_helper call has succeeded
    toolchain,                        \* what swiftc did in this compile_helper
    pc,                               \* "idle", "batch" (in the for loop), "helper" or
                                      \* "compiling" (blocked in subprocess.run), "done"
    call,                             \* the tool call being served
    idx,                              \* position in paths of the current item
    alive,                            \* child processes spawned and not yet exited
    started,                          \* the helper spawns of this call, in order
    refused,                          \* the subprocess.run calls of this call that
                                      \* raised before a process existed, in order
    located,                          \* the files _helper_command found at each of its
                                      \* calls in this call, in order
    finished,                         \* the helper completions of this call, in order
    results, errors,                  \* ocr_batch's two lists
    ret                               \* what the last call returned or raised

nvars == <<nPc, nDoc, nOut, nOut2>>

fsvars == <<binExists, binExec, scriptExists, buildDir, compiled>>

svars == <<binExists, binExec, scriptExists, buildDir, compiled, toolchain, pc, call, idx,
           alive, started, refused, located, finished, results, errors, ret>>

vars == <<nPc, nDoc, nOut, nOut2, binExists, binExec, scriptExists, buildDir, compiled,
          toolchain, pc, call, idx, alive, started, refused, located, finished, results, errors,
          ret>>

---------------------------------------------------------------------------
(* Bounds *)

\* longest `lines` sequence of a generated document
MaxLines == 2

\* longest paths list given to ocr_batch
MaxBatch == 2

---------------------------------------------------------------------------
(* JSON values *)

JStr(s) == [t |-> "str", v |-> s]

JNum(n) == [t |-> "num", v |-> n]

\* a JSON real, held as the text repr() gives for the float
JReal(text) == [t |-> "real", v |-> text]

JBool(b) == [t |-> "bool", v |-> b]

JNull == [t |-> "null"]

JList(s) == [t |-> "list", v |-> s]

JObj(d) == [t |-> "obj", v |-> d]

\* isinstance(x, dict)
IsDict(x) == x.t = "obj"

\* isinstance(x, list)
IsList(x) == x.t = "list"

EmptyDict == [k \in {} |-> JNull]

\* the dict d with d[key] = val set (insert or overwrite)
DictSet(d, key, val) == [k \in DOMAIN d \cup {key} |-> IF k = key THEN val ELSE d[k]]

\* the union of two dicts with disjoint key sets
DictJoin(a, b) == [k \in DOMAIN a \cup DOMAIN b |-> IF k \in DOMAIN a THEN a[k] ELSE b[k]]

---------------------------------------------------------------------------
(* Result Normalizer: _normalize_payload *)

\* a rename that overwrites a canonical key already present
RenameKeyOverwriting(d, legacy, canonical) ==
    IF legacy \in DOMAIN d
    THEN [k \in (DOMAIN d \ {legacy}) \cup {canonical} |->
            IF k = canonical THEN d[legacy] ELSE d[k]]
    ELSE d

\* if legacy in d and canonical not in d: d[canonical] = d.pop(legacy)
RenameKey(d, legacy, canonical) ==
    IF legacy \in DOMAIN d /\ canonical \notin DOMAIN d
    THEN [k \in (DOMAIN d \ {legacy}) \cup {canonical} |->
            IF k = canonical THEN d[legacy] ELSE d[k]]
    ELSE d

\* the bbox branch: rename minX, minY of a dict bbox
ConvertBbox(bbox) == RenameKey(RenameKey(bbox, "minX", "min_x"), "minY", "min_y")

\* a conversion that copies the line and leaves its bbox as it came
ConvertLineShallow(line) == line

\* one dict element of lines: copy it, convert its bbox when it is a dict
ConvertLine(line) ==
    IF "bbox" \in DOMAIN line /\ IsDict(line["bbox"])
    THEN DictSet(line, "bbox", JObj(ConvertBbox(line["bbox"].v)))
    ELSE line

\* a loop that inserts each converted line at the front
RECURSIVE ConvertLinesReversed(_)
ConvertLinesReversed(lines) ==
    IF Len(lines) = 0 THEN <<>>
    ELSE ConvertLinesReversed(Tail(lines)) \o
         (IF IsDict(Head(lines)) THEN <<JObj(ConvertLine(Head(lines).v))>> ELSE <<>>)

\* the for loop over lines: skip non-dict elements, append converted dicts
RECURSIVE ConvertLines(_)
ConvertLines(lines) ==
    IF Len(lines) = 0 THEN <<>>
    ELSE (IF IsDict(Head(lines)) THEN <<JObj(ConvertLine(Head(lines).v))>> ELSE <<>>)
         \o ConvertLines(Tail(lines))

\* the three top-level renames
RenameTop(d) ==
    RenameKey(RenameKey(RenameKey(d, "resolvedPath", "resolved_path"),
                        "lineCount", "line_count"),
              "fullText", "full_text")

\* _normalize_payload on a dict
NormalizeDict(d) ==
    LET normalized == RenameTop(d)
    IN  IF "lines" \in DOMAIN normalized /\ IsList(normalized["lines"])
        THEN DictSet(normalized, "lines", JList(ConvertLines(normalized["lines"].v)))
        ELSE normalized

---------------------------------------------------------------------------
(* Documents handed to the normalizer *)

\* the ways one concept can be keyed in an input dict: not at all, under the
\* legacy key, under the canonical key, or under both with different values
PairOptions(legacy, canonical, lv, cv) ==
    { EmptyDict, legacy :> lv, canonical :> cv, (legacy :> lv) @@ (canonical :> cv) }

\* a key the normalizer does not know
ExtraKeys == "engine" :> JStr("vision")

TopDocs ==
    { DictJoin(DictJoin(DictJoin(p, c), f), ExtraKeys) :
        p \in PairOptions("resolvedPath", "resolved_path", JStr("/old/a.png"), JStr("/new/a.png")),
        c \in PairOptions("lineCount", "line_count", JNum(1), JNum(2)),
        f \in PairOptions("fullText", "full_text", JStr("legacy text"), JStr("canonical text")) }

SmallTops ==
    { ExtraKeys,
      DictJoin(ExtraKeys, "full_text" :> JStr("canonical text")),
      DictJoin(ExtraKeys, "fullText" :> JStr("legacy text")) }

Bboxes ==
    { DictJoin(DictJoin(x, y), "width" :> JNum(3)) :
        x \in PairOptions("minX", "min_x", JNum(0), JNum(5)),
        y \in PairOptions("minY", "min_y", JNum(0), JNum(6)) }

LineElems ==
    { JNum(7), JObj("text" :> JStr("t")), JObj(("text" :> JStr("t")) @@ ("bbox" :> JNull)) }
    \cup { JObj(("text" :> JStr("t")) @@ ("bbox" :> JObj(b))) : b \in Bboxes }

SeqsUpTo(S, n) == UNION { [1..k -> S] : k \in 0..n }

\* the `lines` entry of a document: absent, not a list, or a list
AllLinesFields ==
    { EmptyDict, "lines" :> JStr("n/a") }
    \cup { "lines" :> JList(s) : s \in SeqsUpTo(LineElems, MaxLines) }

SmallLinesFields ==
    { EmptyDict, "lines" :> JStr("n/a"), "lines" :> JList(<<>>),
      "lines" :> JList(<< JNum(7),
                          JObj(("text" :> JStr("t")) @@
                               ("bbox" :> JObj(("minX" :> JNum(0)) @@ ("min_x" :> JNum(5))))) >>) }

\* the helper output of the first scenario
ScenarioDoc ==
    ("fullText" :> JStr("hello")) @@ ("lineCount" :> JNum(1)) @@
    ("lines" :> JList(<< JObj(("text" :> JStr("hello")) @@
                              ("confidence" :> JReal("0.9")) @@
                              ("bbox" :> JObj(("minX" :> JNum(0)) @@ ("minY" :> JNum(0))))) >>))

GenDocs ==
    { DictJoin(top, ln) : top \in TopDocs, ln \in SmallLinesFields }
    \cup { DictJoin(top, ln) : top \in SmallTops, ln \in AllLinesFields }
    \cup { ScenarioDoc }

---------------------------------------------------------------------------
(* Outcomes of a call: a returned value or a raised exception *)

Ok(v) == [kind |-> "ok", value |-> v]

\* an exception of class `type`; its message is `text`, then the path or suffix
\* `arg`, then the pieces of `detail`, then the comma-joined list `supported`
RaiseMsg(type, text, arg, detail, supported) ==
    [kind |-> "err", type |-> type, text |-> text, arg |-> arg, detail |-> detail,
     supported |-> supported]

\* an exception whose message is `text` followed by the pieces of `detail`
Raise(type, text, detail) == RaiseMsg(type, text, <<>>, detail, <<>>)

NoReturn == [kind |-> "none"]

\* str(exc): the message without the exception class
StrOf(e) == [text |-> e.text, arg |-> e.arg, detail |-> e.detail, supported |-> e.supported]

---------------------------------------------------------------------------
(* Path Resolver: _resolve_image_path *)

\* the anchor of an absolute path
Root == <<"/">>

Dot == <<".">>

DotDot == <<".", ".">>

\* the character with code point 0, which a string here cannot hold
Nul == "U+0000"

\* the longest file name and the length from which a path is too long, in bytes;
\* the characters of a path here take one byte each
NAME_MAX == 255

PATH_MAX == 4096

Cwd == <<Root, <<"w", "o", "r", "k">>>>

\* the home directory of the user running the server
Home == <<Root, <<"h", "o", "m", "e">>>>

\* the home directories of the users ~name can name
Passwd == <<"r", "o", "o", "t">> :> <<Root, <<"r", "o", "o", "t">>>>

\* the regular files and the directories of the file system; it has no symlinks
Files == { <<Root, <<"w", "o", "r", "k">>, <<"p", "h", "o", "t", "o", ".", "p", "n", "g">>>>, <<Root, <<"i", "m", "g">>, <<"S", "H", "O", "T", ".", "P", "N", "G">>>>,
           <<Root, <<"w", "o", "r", "k">>, <<"n", "o", "t", "e", "s", ".", "t", "x", "t">>>>, <<Root, <<"w", "o", "r", "k">>, <<".", "p", "n", "g">>>>,
           <<Root, <<"i", "m", "g">>, <<"s", "c", "a", "n", ".", "t", "a", "r", ".", "J", "p", "e", "g">>>> }

Dirs == { <<Root>>, <<Root, <<"w", "o", "r", "k">>>>, <<Root, <<"i", "m", "g">>>>, <<Root, <<"h", "o", "m", "e">>>>,
          <<Root, <<"h", "o", "m", "e">>, <<"s", "c", "a", "n", "s">>>>, <<Root, <<"r", "o", "o", "t">>>> }

KeptSegment(seg) == seg # <<>> /\ seg # Dot

\* Path(path): the segments between the separators, without the empty ones and
\* the "." ones
PathParts(path) == SelectSeq(path, KeptSegment)

IsAbsolute(p) == Len(p) > 0 /\ p[1] = Root

\* the segment holds a NUL character
SegHasNul(seg) == \E i \in 1..Len(seg) : seg[i] = Nul

\* Path.expanduser: a leading ~ is the home directory, a leading ~name the home
\* of user name; a name with a NUL in it is a ValueError of the password
\* database and an unknown name a RuntimeError
ExpandUser(p) ==
    IF Len(p) > 0 /\ ~IsAbsolute(p) /\ Head(p[1]) = "~"
    THEN IF p[1] = <<"~">> THEN Ok(Home \o Tail(p))
         ELSE IF SegHasNul(p[1]) THEN Raise("ValueError", "embedded null byte", <<>>)
         ELSE IF Tail(p[1]) \in DOMAIN Passwd THEN Ok(Passwd[Tail(p[1])] \o Tail(p))
         ELSE Raise("RuntimeError", "Could not determine home directory.", <<>>)
    ELSE Ok(p)

\* Path.resolve where nothing is a symlink: each ".." removes the segment before
\* it, and the root is its own parent
RECURSIVE ResolveFrom(_, _)
ResolveFrom(acc, rest) ==
    IF Len(rest) = 0 THEN acc
    ELSE IF Head(rest) = Dot THEN ResolveFrom(acc, Tail(rest))
    ELSE IF Head(rest) = DotDot
    THEN ResolveFrom(IF Len(acc) > 1 THEN SubSeq(acc, 1, Len(acc) - 1) ELSE acc, Tail(rest))
    ELSE ResolveFrom(Append(acc, Head(rest)), Tail(rest))

\* Path.resolve on an absolute path
ResolveAbs(p) == ResolveFrom(<<Root>>, Tail(p))

\* name.rfind("."), counted from 1; 0 when the name has no "."
LastDot(name) ==
    IF \E i \in 1..Len(name) : name[i] = "."
    THEN CHOOSE i \in 1..Len(name) : name[i] = "." /\ \A j \in (i + 1)..Len(name) : name[j] # "."
    ELSE 0

\* Path.suffix: the last segment from its last "." on, when that "." is neither
\* the first nor the last character
Suffix(p) ==
    LET name == IF Len(p) > 1 THEN p[Len(p)] ELSE <<>>
        i == LastDot(name)
    IN  IF 1 < i /\ i < Len(name) THEN SubSeq(name, i, Len(name)) ELSE <<>>

UpperCase == <<"A", "B", "C", "D", "E", "F", "G", "H", "I", "J", "K", "L", "M", "N", "O", "P", "Q", "R", "S", "T", "U", "V", "W", "X", "Y", "Z">>

LowerCase == <<"a", "b", "c", "d", "e", "f", "g", "h", "i", "j", "k", "l", "m", "n", "o", "p", "q", "r", "s", "t", "u", "v", "w", "x", "y", "z">>

LowerChar(c) ==
    IF \E i \in 1..Len(UpperCase) : UpperCase[i] = c
    THEN LowerCase[CHOOSE i \in 1..Len(UpperCase) : UpperCase[i] = c]
    ELSE c

\* str.lower
Lower(s) == [i \in 1..Len(s) |-> LowerChar(s[i])]

AllowedSuffixes ==
    { <<".", "p", "n", "g">>, <<".", "j", "p", "g">>, <<".", "j", "p", "e", "g">>, <<".", "t", "i", "f">>, <<".", "t", "i", "f", "f">>, <<".", "h", "e", "i", "c">>, <<".", "h", "e", "i", "f">>, <<".", "b", "m", "p">>, <<".", "g", "i", "f">>,
      <<".", "w", "e", "b", "p">> }

\* the code points of "." and of the lower-case letters, in increasing order
CodePointOrder == <<".">> \o LowerCase

Ord(c) == CHOOSE i \in 1..Len(CodePointOrder) : CodePointOrder[i] = c

\* a < b for two strings
RECURSIVE StrLess(_, _)
StrLess(a, b) ==
    IF Len(a) = 0 THEN Len(b) > 0
    ELSE IF Len(b) = 0 THEN FALSE
    ELSE IF Head(a) = Head(b) THEN StrLess(Tail(a), Tail(b))
    ELSE Ord(Head(a)) < Ord(Head(b))

\* sorted(S) for a set of strings
RECURSIVE Sorted(_)
Sorted(S) ==
    IF S = {} THEN <<>>
    ELSE LET m == CHOOSE x \in S : \A y \in S \ {x} : StrLess(x, y)
         IN  <<m>> \o Sorted(S \ {m})

\* Path(path).expanduser()
Expanded(path) == ExpandUser(PathParts(path))

\* the absolute path resolve() is called on, for a path that expands
Joined(path) ==
    LET c == Expanded(path).value
    IN  IF IsAbsolute(c) THEN c ELSE Cwd \o c

\* resolve() looks at every segment but the "..", and a NUL in one is a ValueError
HasNul(p) == \E i \in 1..Len(p) : SegHasNul(p[i])

\* candidate after the cwd join and resolve, for a path that expands
Candidate(path) == ResolveAbs(Joined(path))

\* len(str(p)) for an absolute path
RECURSIVE PathLen(_)
PathLen(p) ==
    IF Len(p) <= 1 THEN 1
    ELSE IF Len(p) = 2 THEN 1 + Len(p[2])
    ELSE PathLen(SubSeq(p, 1, Len(p) - 1)) + 1 + Len(p[Len(p)])

\* the walk of os.stat from the directory `dir` along the segments `rest`: the
\* errno of the first segment that cannot be entered, or "found"
RECURSIVE StatFrom(_, _)
StatFrom(dir, rest) ==
    IF Len(rest) = 0 THEN "found"
    ELSE IF dir \notin Dirs THEN "ENOTDIR"
    ELSE IF Len(Head(rest)) > NAME_MAX THEN "ENAMETOOLONG"
    ELSE IF Append(dir, Head(rest)) \notin Files \cup Dirs THEN "ENOENT"
    ELSE StatFrom(Append(dir, Head(rest)), Tail(rest))

\* os.stat on an absolute path
Stat(p) == IF PathLen(p) >= PATH_MAX THEN "ENAMETOOLONG" ELSE StatFrom(<<Root>>, Tail(p))

\* sorted(allowed)
SortedAllowed == Sorted(AllowedSuffixes)

\* Path.exists is False for "ENOENT" and "ENOTDIR" and raises the OSError of
\* "ENAMETOOLONG"
resolve_image_path(path) ==
    LET expanded == Expanded(path)
        joined == Joined(path)
        candidate == ResolveAbs(joined)
        st == Stat(candidate)
    IN  IF expanded.kind = "err" THEN expanded
        ELSE IF HasNul(joined) THEN Raise("ValueError", "embedded null byte", <<>>)
        ELSE IF st = "ENAMETOOLONG"
        THEN RaiseMsg("OSError", "[Errno 36] File name too long: '", candidate, <<"'">>, <<>>)
        ELSE IF st # "found"
        THEN RaiseMsg("OCRError", "File not found: ", candidate, <<>>, <<>>)
        ELSE IF candidate \notin Files
        THEN RaiseMsg("OCRError", "Path is not a file: ", candidate, <<>>, <<>>)
        ELSE IF Lower(Suffix(candidate)) \notin AllowedSuffixes
        THEN RaiseMsg("OCRError", "Unsupported extension: ", <<Suffix(candidate)>>,
                      <<". Supported: ">>, SortedAllowed)
        ELSE Ok(candidate)

---------------------------------------------------------------------------
(* Helper Locator: _helper_command *)

HELPER_SCRIPT == "vision_ocr.swift"

HELPER_BIN == ".build/vision_ocr"

\* a locator that takes the binary whenever it exists, executable or not
helper_command_any_binary ==
    IF binExists
    THEN Ok(<<HELPER_BIN>>)
    ELSE IF ~scriptExists
    THEN Raise("OCRError", "Swift helper script not found: ", <<HELPER_SCRIPT>>)
    ELSE Ok(<<"xcrun", "swift", HELPER_SCRIPT>>)

helper_command ==
    IF binExists /\ binExec
    THEN Ok(<<HELPER_BIN>>)
    ELSE IF ~scriptExists
    THEN Raise("OCRError", "Swift helper script not found: ", <<HELPER_SCRIPT>>)
    ELSE Ok(<<"xcrun", "swift", HELPER_SCRIPT>>)

---------------------------------------------------------------------------
(* Recognition Invoker: _run_helper *)

DEFAULT_LANGUAGES == <<"ja-JP", "en-US">>

ALLOWED_LEVELS == { "accurate", "fast" }

\* min_confidence is counted in thousandths, the unit "%.3f" prints
MinConfidenceLow == 0

MinConfidenceHigh == 1000

\* _default_languages; None and the empty list are both <<>>
default_languages(languages) == IF Len(languages) = 0 THEN DEFAULT_LANGUAGES ELSE languages

\* a validation that forgets the min_confidence range
CheckParamsLevelOnly(recognition_level, min_confidence) ==
    IF recognition_level \notin ALLOWED_LEVELS
    THEN Raise("OCRError", "recognition_level must be one of ['accurate', 'fast']", <<>>)
    ELSE Ok(TRUE)

\* the two checks at the head of _run_helper
CheckParams(recognition_level, min_confidence) ==
    IF recognition_level \notin ALLOWED_LEVELS
    THEN Raise("OCRError", "recognition_level must be one of ['accurate', 'fast']", <<>>)
    ELSE IF ~(MinConfidenceLow <= min_confidence /\ min_confidence <= MinConfidenceHigh)
    THEN Raise("OCRError", "min_confidence must be between 0.0 and 1.0", <<>>)
    ELSE Ok(TRUE)

\* _run_helper up to subprocess.run: the command to spawn, or the exception; the
\* two boolean flags are left at their default, True, which is sent as "true"
BuildCommand(image_path, languages, recognition_level, min_confidence) ==
    LET chk == CheckParams(recognition_level, min_confidence)
        loc == helper_command
    IN  IF chk.kind = "err" THEN chk
        ELSE IF loc.kind = "err" THEN loc
        ELSE Ok([prefix |-> loc.value, input |-> image_path, languages |-> languages,
                 recognition_level |-> recognition_level,
                 language_correction |-> "true", sort_reading_order |-> "true",
                 min_confidence |-> min_confidence])

\* what subprocess.run does with a command: "run" starts the process; the others
\* are the errno with which the exec fails, no process having been created
SpawnInputs == { "run", "ENOENT", "ENOEXEC", "EACCES" }

\* the OSError subprocess.run raises for errno `sp` and the executable `exe`
SpawnError(sp, exe) ==
    CASE sp = "ENOENT" ->
            Raise("FileNotFoundError", "[Errno 2] No such file or directory: ", <<"'", exe, "'">>)
      [] sp = "ENOEXEC" ->
            Raise("OSError", "[Errno 8] Exec format error: ", <<"'", exe, "'">>)
      [] sp = "EACCES" ->
            Raise("PermissionError", "[Errno 13] Permission denied: ", <<"'", exe, "'">>)

\* What a process writes to a pipe is a sequence of bytes. A byte is written as
\* the ASCII character it encodes where a string here can hold that character
\* ("a", "\n"), and as "0x" and its two hex digits otherwise ("0x0b", "0xc2").
\* Text is a sequence of characters: the character itself, or "U+" and the hex
\* digits of its code point ("U+00A0") where a string here cannot hold it.

HexDigits == <<"0", "1", "2", "3", "4", "5", "6", "7", "8", "9", "a", "b", "c", "d", "e", "f">>

UpperHexDigits ==
    <<"0", "1", "2", "3", "4", "5", "6", "7", "8", "9", "A", "B", "C", "D", "E", "F">>

\* "0x%02x" % n
ByteTok(n) == "0x" \o HexDigits[(n \div 16) + 1] \o HexDigits[(n % 16) + 1]

\* "%X" % n
RECURSIVE UpperHex(_)
UpperHex(n) ==
    IF n < 16 THEN UpperHexDigits[n + 1]
    ELSE UpperHex(n \div 16) \o UpperHexDigits[(n % 16) + 1]

\* "U+%04X" % cp
CodePointTok(cp) ==
    "U+" \o (CASE cp < 16 -> "000" [] cp < 256 -> "00" [] cp < 4096 -> "0" [] OTHER -> "")
         \o UpperHex(cp)

\* the characters of code points 32 to 95 and 97 to 126; a string here cannot
\* hold the character 96
Printable ==
    <<" ", "!", "\"", "#", "$", "%", "&", "'", "(", ")", "*", "+", ",", "-", ".", "/",
      "0", "1", "2", "3", "4", "5", "6", "7", "8", "9", ":", ";", "<", "=", ">", "?",
      "@", "A", "B", "C", "D", "E", "F", "G", "H", "I", "J", "K", "L", "M", "N", "O",
      "P", "Q", "R", "S", "T", "U", "V", "W", "X", "Y", "Z", "[", "\\", "]", "^", "_",
      "a", "b", "c", "d", "e", "f", "g", "h", "i", "j", "k", "l", "m", "n", "o",
      "p", "q", "r", "s", "t", "u", "v", "w", "x", "y", "z", "{", "|", "}", "~">>

\* chr(cp)
Chr(cp) ==
    CASE cp = 9 -> "\t"
      [] cp = 10 -> "\n"
      [] cp = 12 -> "\f"
      [] cp = 13 -> "\r"
      [] cp \in 32..95 -> Printable[cp - 31]
      [] cp \in 97..126 -> Printable[cp - 32]
      [] OTHER -> CodePointTok(cp)

\* the value of a byte written as a character, and of one written in hex
CharValue ==
    [c \in { Chr(n) : n \in { 9, 10, 12, 13 } \cup 32..95 \cup 97..126 } |->
        CHOOSE n \in 0..127 : Chr(n) = c]

HexValue == [b \in { ByteTok(n) : n \in 0..255 } |-> CHOOSE n \in 0..255 : ByteTok(n) = b]

ByteValue(b) == IF Len(b) = 1 THEN CharValue[b] ELSE HexValue[b]

\* bytes 0x80 to 0xbf continue a sequence
IsContinuation(v) == 128 <= v /\ v < 192

\* a character of `n` bytes, and bytes that are no character: the reason and the
\* number of bytes the error covers
Decoded(n, cp) == [n |-> n, char |-> Chr(cp)]

Undecodable(reason, n) == [n |-> n, reason |-> reason]

\* the UTF-8 decoder at byte i of s: lead bytes c2..df start two bytes, e0..ef
\* three, f0..f4 four; the second byte is narrower after e0, ed, f0 and f4, which
\* shuts out overlong forms, surrogates and code points above U+10FFFF
SequenceAt(s, i) ==
    LET left == Len(s) - i + 1
        ch == ByteValue(s[i])
        ch2 == ByteValue(s[i + 1])
        ch3 == ByteValue(s[i + 2])
        ch4 == ByteValue(s[i + 3])
    IN  IF ch < 128 THEN Decoded(1, ch)
        ELSE IF ch < 194 \/ ch > 244 THEN Undecodable("invalid start byte", 1)
        ELSE IF left < 2 THEN Undecodable("unexpected end of data", left)
        ELSE IF ch < 224
        THEN IF ~IsContinuation(ch2) THEN Undecodable("invalid continuation byte", 1)
             ELSE Decoded(2, (ch - 192) * 64 + (ch2 - 128))
        ELSE IF ch < 240
        THEN IF ~IsContinuation(ch2) \/ (IF ch2 < 160 THEN ch = 224 ELSE ch = 237)
             THEN Undecodable("invalid continuation byte", 1)
             ELSE IF left < 3 THEN Undecodable("unexpected end of data", left)
             ELSE IF ~IsContinuation(ch3) THEN Undecodable("invalid continuation byte", 2)
             ELSE Decoded(3, (ch - 224) * 4096 + (ch2 - 128) * 64 + (ch3 - 128))
        ELSE IF ~IsContinuation(ch2) \/ (IF ch2 < 144 THEN ch = 240 ELSE ch = 244)
        THEN Undecodable("invalid continuation byte", 1)
        ELSE IF left < 3 THEN Undecodable("unexpected end of data", left)
        ELSE IF ~IsContinuation(ch3) THEN Undecodable("invalid continuation byte", 2)
        ELSE IF left < 4 THEN Undecodable("unexpected end of data", left)
        ELSE IF ~IsContinuation(ch4) THEN Undecodable("invalid continuation byte", 3)
        ELSE Decoded(4, (ch - 240) * 262144 + (ch2 - 128) * 4096 + (ch3 - 128) * 64
                        + (ch4 - 128))

\* the UnicodeDecodeError for `n` bytes from byte i of s, positions counted
\* from 0
DecodeError(s, i, reason, n) ==
    IF n = 1
    THEN Raise("UnicodeDecodeError", "'utf-8' codec can't decode byte ",
               <<ByteTok(ByteValue(s[i])), " in position ", ToString(i - 1), ": ", reason>>)
    ELSE Raise("UnicodeDecodeError", "'utf-8' codec can't decode bytes in position ",
               <<ToString(i - 1), "-", ToString(i + n - 2), ": ", reason>>)

\* the characters of s from byte i on, appended to `text`, or the error of the
\* first bytes that are no character
RECURSIVE DecodeFrom(_, _, _)
DecodeFrom(s, i, text) ==
    IF i > Len(s) THEN Ok(text)
    ELSE LET q == SequenceAt(s, i)
         IN  IF "reason" \in DOMAIN q THEN DecodeError(s, i, q.reason, q.n)
             ELSE DecodeFrom(s, i + q.n, Append(text, q.char))

\* bytes.decode with the locale's encoding, UTF-8, and strict errors
Decode(s) == DecodeFrom(s, 1, <<>>)

\* universal newlines: "\r\n" and "\r" are read as "\n"
RECURSIVE TranslateNewlines(_)
TranslateNewlines(s) ==
    IF Len(s) = 0 THEN <<>>
    ELSE IF Head(s) = "\r"
    THEN <<"\n">> \o TranslateNewlines(IF Len(s) > 1 /\ s[2] = "\n" THEN Tail(Tail(s))
                                        ELSE Tail(s))
    ELSE <<Head(s)>> \o TranslateNewlines(Tail(s))

\* the characters str.strip removes; one that a string here cannot hold is
\* written as its code point
Whitespace ==
    { " ", "\t", "\n", "\r", "\f", "U+000B", "U+001C", "U+001D", "U+001E", "U+001F", "U+0085",
      "U+00A0", "U+1680", "U+2000", "U+2001", "U+2002", "U+2003", "U+2004", "U+2005",
      "U+2006", "U+2007", "U+2008", "U+2009", "U+200A", "U+2028", "U+2029", "U+202F",
      "U+205F", "U+3000" }

IsSpace(c) == c \in Whitespace

RECURSIVE LStrip(_)
LStrip(s) == IF Len(s) > 0 /\ IsSpace(Head(s)) THEN LStrip(Tail(s)) ELSE s

RECURSIVE RStrip(_)
RStrip(s) == IF Len(s) > 0 /\ IsSpace(s[Len(s)]) THEN RStrip(SubSeq(s, 1, Len(s) - 1)) ELSE s

\* str.strip on a text given as its sequence of tokens
Strip(s) == RStrip(LStrip(s))

\* a message taken from stderr as it is, the fallback only for an empty stderr
FailureMessageUntrimmed(stderr) ==
    IF Len(stderr) = 0
    THEN Raise("OCRError", "Swift OCR helper failed without stderr output.", <<>>)
    ELSE Raise("OCRError", "", stderr)

\* the returncode != 0 branch
FailureMessage(stderr) ==
    IF Len(Strip(stderr)) = 0
    THEN Raise("OCRError", "Swift OCR helper failed without stderr output.", <<>>)
    ELSE Raise("OCRError", "", Strip(stderr))

\* the helper's standard output: text json.loads rejects, the text of a
\* document, or the bytes themselves where they are not UTF-8
NotJson(text) == [parses |-> FALSE, text |-> text]

JsonText(doc) == [parses |-> TRUE, doc |-> doc]

NotUtf8(bytes) == [parses |-> FALSE, bytes |-> bytes]

\* the decoding of standard output: an output given as text decodes
DecodeStdout(stdout) == IF "bytes" \in DOMAIN stdout THEN Decode(stdout.bytes) ELSE Ok(stdout)

\* what subprocess.run hands over once both pipes are decoded, standard output
\* first: the first UnicodeDecodeError, or the text of standard error with its
\* line ends translated
Captured(stdout, stderr) ==
    IF stdout.kind = "err" THEN stdout
    ELSE IF stderr.kind = "err" THEN stderr
    ELSE Ok(TranslateNewlines(stderr.value))

\* subprocess.run with text=True reading the helper's pipes, standard output
\* first: the text of standard error, or the UnicodeDecodeError
Communicate(out) == Captured(DecodeStdout(out.stdout), Decode(out.stderr))

\* str(exc) of the JSONDecodeError json.loads raises on `text`
JsonErrorOf(text) ==
    CASE text = "" -> "Expecting value: line 1 column 1 (char 0)"
      [] text = "{" ->
            "Expecting property name enclosed in double quotes: line 1 column 2 (char 1)"

\* type(x).__name__ for a parsed JSON value
TypeName(x) ==
    CASE x.t = "num" -> "int"
      [] x.t = "real" -> "float"
      [] x.t = "bool" -> "bool"
      [] x.t = "null" -> "NoneType"
      [] x.t = "str" -> "str"
      [] x.t = "list" -> "list"
      [] x.t = "obj" -> "dict"

\* len() of element e of the sequence dict() is updated from; a non-empty
\* string element has a length the model does not know
ElemLen(e) ==
    CASE e.t = "list" -> Len(e.v)
      [] e.t = "obj" -> Cardinality(DOMAIN e.v)
      [] e.t = "str" /\ e.v = "" -> 0

\* dict.update from the elements items[i..]: each must be a sequence of two
\* items, the first of them hashable; a later key overwrites an earlier one.
\* Element numbers in the messages count from 0.
RECURSIVE DictUpdate(_, _, _)
DictUpdate(d, items, i) ==
    IF i > Len(items) THEN Ok(d)
    ELSE LET e == items[i]
         IN  IF e.t \notin { "list", "obj", "str" }
             THEN Raise("TypeError", "cannot convert dictionary update sequence element #",
                        <<ToString(i - 1), " to a sequence">>)
             ELSE IF ElemLen(e) # 2
             THEN Raise("ValueError", "dictionary update sequence element #",
                        <<ToString(i - 1), " has length ", ToString(ElemLen(e)),
                          "; 2 is required">>)
             ELSE CASE e.t = "list" /\ e.v[1].t \in { "list", "obj" } ->
                          Raise("TypeError", "unhashable type: ", <<"'", TypeName(e.v[1]), "'">>)
                    [] e.t = "list" /\ e.v[1].t = "str" ->
                          DictUpdate(DictSet(d, e.v[1].v, e.v[2]), items, i + 1)

\* dict(payload): a copy of a dict, a dict built from a sequence of pairs, or
\* the exception for a value that is not iterable or no sequence of pairs
DictOf(payload) ==
    CASE payload.t = "obj" -> Ok(payload.v)
      [] payload.t = "list" -> DictUpdate(EmptyDict, payload.v, 1)
      [] payload.t = "str" ->
            IF payload.v = "" THEN Ok(EmptyDict)
            ELSE Raise("ValueError", "dictionary update sequence element #",
                       <<"0", " has length ", "1", "; 2 is required">>)
      [] OTHER -> Raise("TypeError", "", <<"'", TypeName(payload), "'", " object is not iterable">>)

\* _normalize_payload on whatever json.loads returned
normalize_payload(payload) ==
    LET normalized == DictOf(payload)
    IN  IF normalized.kind = "err" THEN normalized ELSE Ok(NormalizeDict(normalized.value))

\* _run_helper after subprocess.run, which returned `completed` or raised it
AfterRun(out, completed) ==
    IF completed.kind = "err" THEN completed
    ELSE IF out.exit # 0 THEN FailureMessage(completed.value)
    ELSE IF ~out.stdout.parses
    THEN Raise("OCRError", "Helper returned invalid JSON: ", <<JsonErrorOf(out.stdout.text)>>)
    ELSE normalize_payload(out.stdout.doc)

\* _run_helper from the moment the helper has exited with `out`
CompleteHelper(out) == AfterRun(out, Communicate(out))

---------------------------------------------------------------------------
(* Tool Surface and Batch Aggregator *)

\* str(x) for the parsed JSON values whose text the model can write
PyStr(x) ==
    CASE x.t = "str" -> x.v
      [] x.t = "num" -> ToString(x.v)
      [] x.t = "real" -> x.v
      [] x.t = "bool" -> IF x.v THEN "True" ELSE "False"
      [] x.t = "null" -> "None"
      [] x.t = "list" /\ Len(x.v) = 0 -> "[]"
      [] x.t = "obj" /\ DOMAIN x.v = {} -> "{}"

\* an extraction that looks under the legacy key only
FullTextLegacyOnly(result) ==
    IF "fullText" \in DOMAIN result THEN PyStr(result["fullText"]) ELSE ""

\* ocr_text's extraction: result.get("full_text"), then result.get("fullText", "")
\* when that is None, then str()
FullTextOf(result) ==
    LET full_text == IF "full_text" \in DOMAIN result THEN result["full_text"] ELSE JNull
        fallback == IF "fullText" \in DOMAIN result THEN result["fullText"] ELSE JStr("")
    IN  PyStr(IF full_text.t = "null" THEN fallback ELSE full_text)

\* the classes that derive from BaseException and not from Exception
NotExceptions == { "KeyboardInterrupt", "SystemExit", "GeneratorExit" }

\* a handler that catches OCRError only
CaughtOCRErrorOnly(e) == e.type = "OCRError"

\* except Exception
Caught(e) == e.type \notin NotExceptions

\* a dict that counts the successes as the total
BatchOutcomeTotalOfResults(paths, res, errs) ==
    [total |-> Len(res), succeeded |-> Len(res), failed |-> Len(errs),
     results |-> res, errors |-> errs]

\* the dict ocr_batch returns
BatchOutcome(paths, res, errs) ==
    [total |-> Len(paths), succeeded |-> Len(res), failed |-> Len(errs),
     results |-> res, errors |-> errs]

\* a spawn that does not wait for the process
PcAfterSpawnNoWait == "batch"

\* subprocess.run returns only when the process has exited
PcAfterSpawn == "helper"

\* _resolve_image_path then _run_helper up to subprocess.run, for one path
BeginItem(path, languages, recognition_level, min_confidence) ==
    LET r == resolve_image_path(path)
    IN  IF r.kind = "err" THEN r
        ELSE BuildCommand(r.value, languages, recognition_level, min_confidence)

\* _helper_command is called for the path: it resolved, and the two checks at
\* the head of _run_helper passed
Locates(path, recognition_level, min_confidence) ==
    /\ resolve_image_path(path).kind = "ok"
    /\ CheckParams(recognition_level, min_confidence).kind = "ok"

\* what _helper_command reads from the disk at this moment, noted for `item`:
\* HELPER_BIN.exists() and os.access(HELPER_BIN, os.X_OK), and where these do
\* not both hold HELPER_SCRIPT.exists(), which is not read otherwise
FilesNow(item) ==
    [item |-> item,
     bin |-> IF ~binExists THEN "absent" ELSE IF ~binExec THEN "noexec" ELSE "exec",
     script |-> IF binExists /\ binExec THEN "unread" ELSE scriptExists]

---------------------------------------------------------------------------
(* Inputs *)

\* the path strings tried with ocr_batch, each split at its separators:
\* ./photo.png, missing.png, ~/scans, notes.txt, ~nouser/a.png
BatchPaths ==
    { <<Dot, <<"p", "h", "o", "t", "o", ".", "p", "n", "g">>>>, <<<<"m", "i", "s", "s", "i", "n", "g", ".", "p", "n", "g">>>>, <<<<"~">>, <<"s", "c", "a", "n", "s">>>>, <<<<"n", "o", "t", "e", "s", ".", "t", "x", "t">>>>,
      <<<<"~", "n", "o", "u", "s", "e", "r">>, <<"a", ".", "p", "n", "g">>>> }

\* n times the character c
Repeat(c, n) == [i \in 1..n |-> c]

\* a file name of NAME_MAX + 1 characters, and one of NAME_MAX
LongName == Repeat("a", NAME_MAX - 3) \o <<".", "p", "n", "g">>

LongestName == Repeat("a", NAME_MAX - 4) \o <<".", "p", "n", "g">>

\* a relative path of seventeen segments that is longer than PATH_MAX
LongPath == Repeat(Repeat("b", NAME_MAX - 5), 17)

\* path strings the system refuses to look up, or that come close to it: the
\* two long names, the long name under a missing directory, under a file, as a
\* directory and before a "..", the long path, a\0.png, a\0/../photo.png, ~a\0
\* and ~nouser/a\0
EdgePaths ==
    { <<LongName>>, <<LongestName>>, <<<<"m", "i", "s", "s", "i", "n", "g">>, LongName>>, <<<<"p", "h", "o", "t", "o", ".", "p", "n", "g">>, LongName>>,
      <<LongName, <<"x", ".", "p", "n", "g">>>>, <<LongName, DotDot, <<"p", "h", "o", "t", "o", ".", "p", "n", "g">>>>, LongPath,
      << <<"a", Nul, ".", "p", "n", "g">> >>, << <<"a", Nul>>, DotDot, <<"p", "h", "o", "t", "o", ".", "p", "n", "g">>>>,
      << <<"~", "a", Nul>> >>, <<<<"~", "n", "o", "u", "s", "e", "r">>, <<"a", Nul>> >> }

\* the path strings tried with the single-image tools: those of a batch, those
\* edge cases, and /img, ../img/SHOT.PNG, /img/SHOT.PNG,
\* /work/../img/./scan.tar.Jpeg, ./~, ~root, .png, /.., the empty string and
\* ..//work/photo.png/
RawPaths ==
    BatchPaths \cup EdgePaths \cup
    { <<Root, <<"i", "m", "g">>>>, <<DotDot, <<"i", "m", "g">>, <<"S", "H", "O", "T", ".", "P", "N", "G">>>>, <<Root, <<"i", "m", "g">>, <<"S", "H", "O", "T", ".", "P", "N", "G">>>>,
      <<Root, <<"w", "o", "r", "k">>, DotDot, <<"i", "m", "g">>, Dot, <<"s", "c", "a", "n", ".", "t", "a", "r", ".", "J", "p", "e", "g">>>>,
      <<Dot, <<"~">>>>, <<<<"~", "r", "o", "o", "t">>>>, <<<<".", "p", "n", "g">>>>, <<Root, DotDot>>, <<>>,
      <<DotDot, <<>>, <<"w", "o", "r", "k">>, <<"p", "h", "o", "t", "o", ".", "p", "n", "g">>, <<>>>> }

\* the shared parameter sets tried with a batch: <<languages, level, confidence>>
BatchParamInputs == { << <<>>, "accurate", 0 >>, << <<"en-US">>, "best", 1000 >> }

\* the parameter sets tried with the single-image tools: those, the upper end
\* of the range with the fast level, a confidence above and one below the
\* range, and a level and a confidence that are both refused
SingleParamInputs ==
    BatchParamInputs \cup
    { << <<"en-US">>, "fast", 1000 >>, << <<"en-US">>, "accurate", 1001 >>,
      << <<>>, "fast", -1 >>, << <<"en-US">>, "best", 1001 >> }

\* the exec outcomes tried with the items of a batch
BatchSpawnInputs == { "run", "ENOENT" }

\* what a helper writes to standard error. Text: nothing, " \n", "\r\n",
\* "model unavailable", the same between blanks, between a form feed and a
\* no-break space, two lines ending "\r\n", "a\r\r\nb\n\r", "a\rb", "été", a line
\* separator and an ideographic space around "x", controls 0b and 1f around "x",
\* a zero-width space before "x ", next-line characters around " x ", and an
\* emoji
TextStderr ==
    { <<>>, <<" ", "\n">>, <<"\r", "\n">>, <<"m", "o", "d", "e", "l", " ", "u", "n", "a", "v", "a", "i", "l", "a", "b", "l", "e">>,
      <<" ">> \o <<"m", "o", "d", "e", "l", " ", "u", "n", "a", "v", "a", "i", "l", "a", "b", "l", "e">> \o <<"\n">>,
      <<"\f">> \o <<"m", "o", "d", "e", "l", " ", "u", "n", "a", "v", "a", "i", "l", "a", "b", "l", "e">> \o <<"0xc2", "0xa0", "\r", "\n">>,
      <<"l", "i", "n", "e", "1">> \o <<"\r", "\n">> \o <<"l", "i", "n", "e", "2">> \o <<"\r", "\n">>,
      <<"a", "\r", "\r", "\n", "b", "\n", "\r">>, <<"a", "\r", "b">>,
      <<"0xc3", "0xa9", "t", "0xc3", "0xa9">>,
      <<"0xe3", "0x80", "0x80", "x", "0xe2", "0x80", "0xa8">>,
      <<"0x0b", "x", "0x1f">>,
      <<"0xe2", "0x80", "0x8b", "x", " ">>,
      <<"0xc2", "0x85", " ", "x", " ", "0xc2", "0x85">>,
      <<"0xf0", "0x9f", "0x98", "0x80">> }

\* and bytes that are no text: ff fe " boom\n", fe " boom", c2 a0 "x" fe, 85,
\* "ab" c2, e2 82, e2 82 "(", ed a0 80, c0 af, f8 and "x" f4 90 80 80
BinaryStderr ==
    { <<"0xff", "0xfe">> \o <<" ", "b", "o", "o", "m">> \o <<"\n">>, <<"0xfe">> \o <<" ", "b", "o", "o", "m">>,
      <<"0xc2", "0xa0", "x", "0xfe">>, <<"0x85">>, <<"a", "b", "0xc2">>, <<"0xe2", "0x82">>,
      <<"0xe2", "0x82", "(">>, <<"0xed", "0xa0", "0x80">>, <<"0xc0", "0xaf">>, <<"0xf8">>,
      <<"x", "0xf4", "0x90", "0x80", "0x80">> }

StderrInputs == TextStderr \cup BinaryStderr

\* bytes on standard output that are not UTF-8: "ab" ff and "{" e2 82
BadStdouts == { <<"a", "b", "0xff">>, <<"{", "0xe2", "0x82">> }

DocSamples ==
    { ScenarioDoc,
      ("full_text" :> JStr("canonical text")) @@ ("line_count" :> JNum(0)) @@
          ("lines" :> JList(<<>>)),
      ("fullText" :> JStr("legacy text")) @@ ("full_text" :> JStr("canonical text")),
      ("fullText" :> JStr("legacy text")) @@ ("full_text" :> JNull),
      ("fullText" :> JNull),
      ("full_text" :> JNum(5)),
      ExtraKeys }

\* parsed documents that are no JSON object: 5, 0.9, true, null, "", "ab", [],
\* [1, 2], [["fullText", "hi"]], [["a", 1], ["a", 2]], [["a", 1], []] and [[[], 1]]
OtherDocs ==
    { JNum(5), JReal("0.9"), JBool(TRUE), JNull, JStr(""), JStr("ab"), JList(<<>>),
      JList(<<JNum(1), JNum(2)>>),
      JList(<< JList(<<JStr("fullText"), JStr("hi")>>) >>),
      JList(<< JList(<<JStr("a"), JNum(1)>>), JList(<<JStr("a"), JNum(2)>>) >>),
      JList(<< JList(<<JStr("a"), JNum(1)>>), JList(<<>>) >>),
      JList(<< JList(<<JList(<<>>), JNum(1)>>) >>) }

StdoutInputs ==
    { NotJson(""), NotJson("{") }
    \cup { NotUtf8(b) : b \in BadStdouts }
    \cup { JsonText(JObj(d)) : d \in DocSamples }
    \cup { JsonText(x) : x \in OtherDocs }

\* the image of the scenarios, for which every completion is tried
ScenarioPath == <<Dot, <<"p", "h", "o", "t", "o", ".", "p", "n", "g">>>>

\* what a helper process can do: exit 0 with any of the outputs, exit 1 with
\* any of the diagnostics, or exit 0 or 1 with a parseable document or bytes
\* that are not UTF-8 on standard output and text or such bytes on standard error
HelperOutputs ==
    { [exit |-> 0, stdout |-> o, stderr |-> <<>>] : o \in StdoutInputs }
    \cup { [exit |-> 1, stdout |-> NotJson(""), stderr |-> e] : e \in StderrInputs }
    \cup { [exit |-> x, stdout |-> o, stderr |-> e] :
              x \in { 0, 1 },
              o \in { JsonText(JObj(ScenarioDoc)), NotUtf8(<<"a", "b", "0xff">>) },
              e \in { <<"m", "o", "d", "e", "l", " ", "u", "n", "a", "v", "a", "i", "l", "a", "b", "l", "e">>, <<"0xfe">> \o <<" ", "b", "o", "o", "m">>, <<"0x85">> } }

\* the completions tried for the items of a batch, and for a single image other
\* than ./photo.png: a document, and a failure with two lines on standard error
BatchHelperOutputs ==
    { [exit |-> 0, stdout |-> JsonText(JObj(ScenarioDoc)), stderr |-> <<>>],
      [exit |-> 1, stdout |-> NotJson(""),
       stderr |-> <<"l", "i", "n", "e", "1">> \o <<"\r", "\n">> \o <<"l", "i", "n", "e", "2">> \o <<"\r", "\n">>] }

\* what the toolchain writes to standard error: nothing, a diagnostic, two
\* lines ending "\r\n", "a\rb", blanks only, and the bytes ff fe " boom\n", 85,
\* "ab" c2 and e2 82 "("
ToolchainStderr ==
    { <<>>, <<"e", "r", "r", "o", "r", ":", " ", "n", "o", " ", "s", "u", "c", "h", " ", "m", "o", "d", "u", "l", "e">> \o <<"\n">>,
      <<"l", "i", "n", "e", "1">> \o <<"\r", "\n">> \o <<"l", "i", "n", "e", "2">> \o <<"\r", "\n">>, <<"a", "\r", "b">>,
      <<" ", "0xc2", "0xa0", "\n">>, <<"0xff", "0xfe">> \o <<" ", "b", "o", "o", "m">> \o <<"\n">>, <<"0x85">>,
      <<"a", "b", "0xc2">>, <<"0xe2", "0x82", "(">> }

\* what the toolchain can do: exit 0 or 1 with any of those on standard error,
\* or with bytes that are not UTF-8 on standard output
ToolchainOutputs ==
    { [exit |-> x, stdout |-> <<>>, stderr |-> e] : x \in { 0, 1 }, e \in ToolchainStderr }
    \cup { [exit |-> x, stdout |-> b, stderr |-> e] :
              x \in { 0, 1 }, b \in BadStdouts, e \in { <<>>, <<"0x85">> } }

NoToolchain == [exit |-> -1, stdout |-> <<>>, stderr |-> <<>>]

\* what mkdir does where .build is absent: it makes the directory, or the
\* directory of the script does not allow it
MkdirInputs == { "made", "EACCES" }

NoCall == [op |-> "none"]

---------------------------------------------------------------------------
(* The server *)

NormOff == nPc = "off" /\ nDoc = EmptyDict /\ nOut = EmptyDict /\ nOut2 = EmptyDict

\* the helper files as another process can leave them: the binary is under the
\* build directory, and a file that is not there is not executable
FsStates ==
    { f \in [binExists : BOOLEAN, binExec : BOOLEAN, scriptExists : BOOLEAN,
             buildDir : { "absent", "dir", "file" }] :
        (f.binExec => f.binExists) /\ (f.binExists => f.buildDir = "dir") }

ServerInit ==
    /\ \E f \in FsStates :
          /\ binExists = f.binExists /\ binExec = f.binExec
          /\ scriptExists = f.scriptExists /\ buildDir = f.buildDir
    /\ compiled = FALSE
    /\ toolchain = NoToolchain
    /\ pc = "idle"
    /\ call = NoCall
    /\ idx = 1
    /\ alive = 0
    /\ started = <<>>
    /\ refused = <<>>
    /\ located = <<>>
    /\ finished = <<>>
    /\ results = <<>>
    /\ errors = <<>>
    /\ ret = NoReturn

Init == NormOff /\ ServerInit

\* a call starts with nothing run and both lists empty
Fresh(c) ==
    /\ call' = c
    /\ idx' = 1
    /\ finished' = <<>>
    /\ results' = <<>>
    /\ errors' = <<>>

\* ocr_image, or ocr_text (which calls ocr_image), up to the point where
\* subprocess.run has started the helper, or to the exception; `sp` is what the
\* exec does if the call gets that far
CallSingle(op, path, languages, level, conf, sp) ==
    /\ pc = "idle"
    /\ Fresh([op |-> op, paths |-> <<path>>, languages |-> default_languages(languages),
              recognition_level |-> level, min_confidence |-> conf])
    /\ located' = IF Locates(path, level, conf) THEN <<FilesNow(1)>> ELSE <<>>
    /\ LET b == BeginItem(path, default_languages(languages), level, conf)
       IN  IF b.kind = "err"
           THEN /\ ret' = b
                /\ pc' = "done"
                /\ started' = <<>>
                /\ refused' = <<>>
                /\ alive' = alive
           ELSE IF sp # "run"
           THEN /\ ret' = SpawnError(sp, b.value.prefix[1])
                /\ pc' = "done"
                /\ started' = <<>>
                /\ refused' = <<[item |-> 1, cmd |-> b.value, errno |-> sp]>>
                /\ alive' = alive
           ELSE /\ ret' = NoReturn
                /\ pc' = PcAfterSpawn
                /\ started' = <<[item |-> 1, cmd |-> b.value]>>
                /\ refused' = <<>>
                /\ alive' = alive + 1
    /\ UNCHANGED toolchain
    /\ UNCHANGED fsvars
    /\ UNCHANGED nvars

\* ocr_batch up to the for loop
CallBatch(paths, languages, level, conf) ==
    /\ pc = "idle"
    /\ Fresh([op |-> "ocr_batch", paths |-> paths, languages |-> default_languages(languages),
              recognition_level |-> level, min_confidence |-> conf])
    /\ ret' = NoReturn
    /\ pc' = "batch"
    /\ started' = <<>>
    /\ refused' = <<>>
    /\ located' = <<>>
    /\ UNCHANGED <<alive, toolchain>>
    /\ UNCHANGED fsvars
    /\ UNCHANGED nvars

\* one turn of the for loop up to the point where subprocess.run has started the
\* helper, or through the except clause; `sp` is what the exec does
BatchItem(sp) ==
    /\ pc = "batch"
    /\ idx <= Len(call.paths)
    /\ located' = IF Locates(call.paths[idx], call.recognition_level, call.min_confidence)
                  THEN Append(located, FilesNow(idx))
                  ELSE located
    /\ LET path == call.paths[idx]
           b == BeginItem(path, call.languages, call.recognition_level, call.min_confidence)
           spawns == b.kind = "ok" /\ sp = "run"
           exc == IF b.kind = "err" THEN b ELSE SpawnError(sp, b.value.prefix[1])
       IN  IF spawns
           THEN /\ started' = Append(started, [item |-> idx, cmd |-> b.value])
                /\ alive' = alive + 1
                /\ pc' = PcAfterSpawn
                /\ UNCHANGED <<errors, idx, ret, refused>>
           ELSE /\ refused' = IF b.kind = "ok"
                              THEN Append(refused, [item |-> idx, cmd |-> b.value, errno |-> sp])
                              ELSE refused
                /\ IF Caught(exc)
                   THEN /\ errors' = Append(errors, [path |-> path, error |-> StrOf(exc)])
                        /\ idx' = idx + 1
                        /\ UNCHANGED <<pc, ret>>
                   ELSE /\ ret' = exc
                        /\ pc' = "done"
                        /\ UNCHANGED <<errors, idx>>
                /\ UNCHANGED <<started, alive>>
    /\ UNCHANGED <<call, finished, results, toolchain>>
    /\ UNCHANGED fsvars
    /\ UNCHANGED nvars

\* the return statement of ocr_batch
BatchReturn ==
    /\ pc = "batch"
    /\ idx > Len(call.paths)
    /\ ret' = Ok(BatchOutcome(call.paths, results, errors))
    /\ pc' = "done"
    /\ UNCHANGED <<call, idx, alive, started, refused, located, finished, results, errors,
                   toolchain>>
    /\ UNCHANGED fsvars
    /\ UNCHANGED nvars

\* what the caller does with the outcome `r` of _run_helper: ocr_image returns
\* or raises it, ocr_text returns the full text of it, and the for loop of
\* ocr_batch files it under results or errors and goes on
Conclude(r) ==
    CASE call.op = "ocr_image" ->
             /\ ret' = r
             /\ pc' = "done"
             /\ UNCHANGED <<idx, results, errors>>
      [] call.op = "ocr_text" ->
             /\ ret' = IF r.kind = "ok" THEN Ok(FullTextOf(r.value)) ELSE r
             /\ pc' = "done"
             /\ UNCHANGED <<idx, results, errors>>
      [] call.op = "ocr_batch" ->
             IF r.kind = "ok"
             THEN /\ results' = Append(results, r.value)
                  /\ idx' = idx + 1
                  /\ pc' = "batch"
                  /\ UNCHANGED <<errors, ret>>
             ELSE IF Caught(r)
             THEN /\ errors' = Append(errors, [path |-> call.paths[idx], error |-> StrOf(r)])
                  /\ idx' = idx + 1
                  /\ pc' = "batch"
                  /\ UNCHANGED <<results, ret>>
             ELSE /\ ret' = r
                  /\ pc' = "done"
                  /\ UNCHANGED <<idx, results, errors>>

\* the helper process exits with `out`; subprocess.run returns and the caller
\* finishes the item
HelperExit(out) ==
    /\ pc = "helper"
    /\ alive' = alive - 1
    /\ finished' = Append(finished, out)
    /\ Conclude(CompleteHelper(out))
    /\ UNCHANGED <<call, started, refused, located, toolchain>>
    /\ UNCHANGED fsvars
    /\ UNCHANGED nvars

\* the command compile_helper runs
CompileCommand == <<"xcrun", "swiftc", "-O", HELPER_SCRIPT, "-o", HELPER_BIN>>

\* what a run of the toolchain leaves at the path given with -o: an executable
\* binary when it exits 0, and what was there when it fails
BinaryAfterToolchain(tc) ==
    IF tc.exit = 0
    THEN [exists |-> TRUE, exec |-> TRUE]
    ELSE [exists |-> binExists, exec |-> binExec]

\* HELPER_BIN.parent
BUILD_DIR == ".build"

\* out_dir.mkdir(parents=True, exist_ok=True): nothing to do for a directory,
\* FileExistsError for anything else at that name, and where the name is free
\* what `mk` says
Mkdir(mk) ==
    CASE buildDir = "dir" -> Ok("dir")
      [] buildDir = "file" ->
            Raise("FileExistsError", "[Errno 17] File exists: ", <<"'", BUILD_DIR, "'">>)
      [] buildDir = "absent" /\ mk = "made" -> Ok("dir")
      [] buildDir = "absent" /\ mk = "EACCES" ->
            Raise("PermissionError", "[Errno 13] Permission denied: ", <<"'", BUILD_DIR, "'">>)

\* subprocess.run with text=True reading the toolchain's pipes, standard output
\* first: the text of standard error, or the UnicodeDecodeError
CommunicateToolchain(tc) == Captured(Decode(tc.stdout), Decode(tc.stderr))

\* compile_helper after subprocess.run, which returned `completed` or raised it
AfterCompile(tc, completed) ==
    IF completed.kind = "err" THEN completed
    ELSE IF tc.exit # 0
    THEN Raise("OCRError", IF Len(Strip(completed.value)) = 0 THEN "swiftc failed" ELSE "",
               Strip(completed.value))
    ELSE Ok([binary |-> HELPER_BIN, status |-> "compiled"])

\* compile_helper from the moment the toolchain has exited with `tc`
CompleteCompile(tc) == AfterCompile(tc, CommunicateToolchain(tc))

\* compile_helper up to the point where subprocess.run has started the
\* toolchain, or to the exception; `mk` is what mkdir does where .build is
\* absent and `sp` what the exec does
CompileHelper(sp, mk) ==
    /\ pc = "idle"
    /\ Fresh([op |-> "compile_helper"])
    /\ started' = <<>>
    /\ located' = <<>>
    /\ toolchain' = NoToolchain
    /\ IF ~scriptExists
       THEN /\ ret' = Raise("OCRError", "Swift helper script not found: ", <<HELPER_SCRIPT>>)
            /\ pc' = "done"
            /\ refused' = <<>>
            /\ UNCHANGED <<alive, buildDir>>
       ELSE IF Mkdir(mk).kind = "err"
       THEN /\ ret' = Mkdir(mk)
            /\ pc' = "done"
            /\ refused' = <<>>
            /\ UNCHANGED <<alive, buildDir>>
       ELSE /\ buildDir' = Mkdir(mk).value
            /\ IF sp # "run"
               THEN /\ ret' = SpawnError(sp, CompileCommand[1])
                    /\ pc' = "done"
                    /\ refused' = <<[item |-> 0, cmd |-> CompileCommand, errno |-> sp]>>
                    /\ UNCHANGED alive
               ELSE /\ ret' = NoReturn
                    /\ pc' = "compiling"
                    /\ refused' = <<>>
                    /\ alive' = alive + 1
    /\ UNCHANGED <<binExists, binExec, scriptExists, compiled>>
    /\ UNCHANGED nvars

\* the toolchain process exits with `tc`; subprocess.run returns and compile_helper
\* finishes. A toolchain that exits 0 has written its output, which it can only
\* where .build is still a directory
ToolchainExit(tc) ==
    /\ pc = "compiling"
    /\ tc.exit = 0 => buildDir = "dir"
    /\ alive' = alive - 1
    /\ toolchain' = tc
    /\ pc' = "done"
    /\ binExists' = BinaryAfterToolchain(tc).exists
    /\ binExec' = BinaryAfterToolchain(tc).exec
    /\ ret' = CompleteCompile(tc)
    /\ compiled' = (compiled \/ ret'.kind = "ok")
    /\ UNCHANGED <<scriptExists, buildDir>>
    /\ UNCHANGED <<call, idx, started, refused, located, finished, results, errors>>
    /\ UNCHANGED nvars

\* the files on disk are changed from outside the server, at any moment: between
\* two calls, between two items, or while subprocess.run waits for a child. The
\* binary or the script is removed or put back, the binary loses or gains its
\* executable bit, .build is removed, made, or replaced by a file
FsChange(f) ==
    /\ f # [binExists |-> binExists, binExec |-> binExec, scriptExists |-> scriptExists,
            buildDir |-> buildDir]
    /\ binExists' = f.binExists
    /\ binExec' = f.binExec
    /\ scriptExists' = f.scriptExists
    /\ buildDir' = f.buildDir
    /\ UNCHANGED <<compiled, toolchain, pc, call, idx, alive, started, refused, located,
                   finished, results, errors, ret>>
    /\ UNCHANGED nvars

\* the response is sent and the server waits for the next request; nothing of the
\* call outlives it but the files on disk
Respond ==
    /\ pc = "done"
    /\ pc' = "idle"
    /\ call' = NoCall
    /\ idx' = 1
    /\ started' = <<>>
    /\ refused' = <<>>
    /\ located' = <<>>
    /\ finished' = <<>>
    /\ results' = <<>>
    /\ errors' = <<>>
    /\ ret' = NoReturn
    /\ toolchain' = NoToolchain
    /\ UNCHANGED alive
    /\ UNCHANGED fsvars
    /\ UNCHANGED nvars

\* the paths lists tried with ocr_batch
BatchCalls == SeqsUpTo(BatchPaths, MaxBatch)

Next ==
    \/ pc = "idle" /\ \E op \in { "ocr_image", "ocr_text" }, path \in RawPaths,
                         a \in SingleParamInputs, sp \in SpawnInputs :
                         CallSingle(op, path, a[1], a[2], a[3], sp)
    \/ pc = "idle" /\ \E paths \in BatchCalls, a \in BatchParamInputs :
                         CallBatch(paths, a[1], a[2], a[3])
    \/ pc = "batch" /\ \E sp \in BatchSpawnInputs : BatchItem(sp)
    \/ BatchReturn
    \/ pc = "helper" /\ call.op # "ocr_batch" /\ call.paths = <<ScenarioPath>>
          /\ \E out \in HelperOutputs : HelperExit(out)
    \/ pc = "helper" /\ (call.op = "ocr_batch" \/ call.paths # <<ScenarioPath>>)
          /\ \E out \in BatchHelperOutputs : HelperExit(out)
    \/ pc = "idle" /\ \E sp \in SpawnInputs, mk \in MkdirInputs : CompileHelper(sp, mk)
    \/ pc = "compiling" /\ \E tc \in ToolchainOutputs : ToolchainExit(tc)
    \/ \E f \in FsStates : FsChange(f)
    \/ Respond

Spec == Init /\ [][Next]_vars

---------------------------------------------------------------------------
(* Properties of the server *)

Done == pc = "done"

IsSingle == call.op \in { "ocr_image", "ocr_text" }

IsBatch == call.op = "ocr_batch"

\* the path string names a home directory that can be found, or none
Expands(p) == Expanded(p).kind = "ok"

\* the paths tried that the system looks up: the path expands, holds no NUL,
\* and neither it nor the first of its names that is not there is too long
LookedUp ==
    { p \in RawPaths :
        /\ Expanded(p).kind = "ok"
        /\ ~HasNul(Joined(p))
        /\ Stat(Candidate(p)) # "ENAMETOOLONG" }

CanLookUp(p) == p \in LookedUp

\* the paths tried that resolve to an existing regular file with an
\* allow-listed extension
Passing ==
    { p \in LookedUp :
        /\ Candidate(p) \in Files
        /\ Lower(Suffix(Candidate(p))) \in AllowedSuffixes }

PathChecksPass(p) == p \in Passing

\* the absolute path each looked-up path stands for
Resolved == [p \in LookedUp |-> Candidate(p)]

\* the call's recognition level and minimum confidence are acceptable
ParamsPass ==
    /\ call.recognition_level \in { "accurate", "fast" }
    /\ call.min_confidence >= 0 /\ call.min_confidence <= 1000

\* the locator was called for item i
Located(i) == \E k \in 1..Len(located) : located[k].item = i

\* the files the locator found when it was called for item i
FilesAt(i) == located[CHOOSE k \in 1..Len(located) : located[k].item = i]

\* the locator found an executable binary
BinaryUsable(l) == l.bin = "exec"

\* the locator found neither an executable binary nor the script
NothingUsable(l) == l.bin # "exec" /\ l.script = FALSE

\* when the locator was called for item i, an executable binary or the script
\* was on disk
HelperAvailable(i) == Located(i) /\ ~NothingUsable(FilesAt(i))

\* the position in `started` of item i's spawn, 0 when it has none
SpawnPos(i) ==
    IF \E k \in 1..Len(started) : started[k].item = i
    THEN CHOOSE k \in 1..Len(started) : started[k].item = i
    ELSE 0

\* the exec of item i's helper failed
Refused(i) == \E k \in 1..Len(refused) : refused[k].item = i

HasOut(i) == SpawnPos(i) \in 1..Len(finished)

\* a list of two elements whose first is a string
IsPair(e) == e.t = "list" /\ Len(e.v) = 2 /\ e.v[1].t = "str"

\* the parsed document is an object or converts to one: a list of pairs (the
\* empty list too) or the empty string
DictAccepts(doc) ==
    \/ IsDict(doc)
    \/ doc.t = "list" /\ \A j \in 1..Len(doc.v) : IsPair(doc.v[j])
    \/ doc.t = "str" /\ doc.v = ""

\* the bytes lo to hi, written in hex
HexRange(lo, hi) == { ByteTok(n) : n \in lo..hi }

\* the well-formed UTF-8 byte sequences beyond ASCII (the Unicode Standard,
\* table 3-7): the bytes allowed at each place
WellFormed ==
    { <<HexRange(194, 223), HexRange(128, 191)>>,
      <<HexRange(224, 224), HexRange(160, 191), HexRange(128, 191)>>,
      <<HexRange(225, 236), HexRange(128, 191), HexRange(128, 191)>>,
      <<HexRange(237, 237), HexRange(128, 159), HexRange(128, 191)>>,
      <<HexRange(238, 239), HexRange(128, 191), HexRange(128, 191)>>,
      <<HexRange(240, 240), HexRange(144, 191), HexRange(128, 191), HexRange(128, 191)>>,
      <<HexRange(241, 243), HexRange(128, 191), HexRange(128, 191), HexRange(128, 191)>>,
      <<HexRange(244, 244), HexRange(128, 143), HexRange(128, 191), HexRange(128, 191)>> }

AsciiHex == HexRange(0, 127)

\* the bytes of s from place i on are those of `row`
StartsWith(s, i, row) ==
    /\ i + Len(row) - 1 <= Len(s)
    /\ \A j \in 1..Len(row) : s[i + j - 1] \in row[j]

\* the bytes of s from place i on are a run of well-formed sequences
RECURSIVE IsUtf8From(_, _)
IsUtf8From(s, i) ==
    \/ i > Len(s)
    \/ i <= Len(s) /\ (Len(s[i]) = 1 \/ s[i] \in AsciiHex) /\ IsUtf8From(s, i + 1)
    \/ \E row \in WellFormed : StartsWith(s, i, row) /\ IsUtf8From(s, i + Len(row))

\* the bytes are UTF-8 text
IsUtf8(s) == IsUtf8From(s, 1)

\* one of the helper's pipes holds bytes that are not UTF-8
NotText(o) ==
    \/ "bytes" \in DOMAIN o.stdout /\ ~IsUtf8(o.stdout.bytes)
    \/ ~IsUtf8(o.stderr)

\* the helper completion does not yield a result
OutBad(o) == NotText(o) \/ o.exit # 0 \/ ~o.stdout.parses \/ ~DictAccepts(o.stdout.doc)

\* item i of the call fails: at a check, for want of a helper, at the exec, or
\* in the helper
ItemFails(i) ==
    \/ ~PathChecksPass(call.paths[i])
    \/ ~ParamsPass
    \/ ~HelperAvailable(i)
    \/ Refused(i)
    \/ ~HasOut(i)
    \/ OutBad(finished[SpawnPos(i)])

ItemSucceeds(i) == ~ItemFails(i)

Indices(n) == [i \in 1..n |-> i]

\* the items handled so far that failed, and those that succeeded, in input order
FailSeq == SelectSeq(Indices(idx - 1), ItemFails)

OkSeq == SelectSeq(Indices(idx - 1), ItemSucceeds)

\* C1: the Batch Outcome of a list of N paths has total = N, succeeded = length of
\* results, failed = length of errors, succeeded + failed = total, and with exactly
\* K failing items failed = K and succeeded = N - K.
Thm_C1 ==
    (Done /\ IsBatch) =>
        /\ ret.kind = "ok"
        /\ idx = Len(call.paths) + 1
        /\ LET o == ret.value
               N == Len(call.paths)
               K == Cardinality({ i \in 1..N : ItemFails(i) })
           IN  /\ o.total = N
               /\ o.succeeded = Len(o.results)
               /\ o.failed = Len(o.errors)
               /\ o.succeeded + o.failed = o.total
               /\ o.failed = K
               /\ o.succeeded = N - K

\* a returned batch of two items of which exactly one failed
Wit_C1 ==
    /\ Done /\ IsBatch
    /\ Len(call.paths) = 2
    /\ ret.kind = "ok"
    /\ ret.value.failed = 1 /\ ret.value.succeeded = 1
    /\ Len(finished) = 1

\* "".join(pieces)
RECURSIVE Join(_)
Join(pieces) ==
    IF Len(pieces) = 0 THEN ""
    ELSE IF Len(pieces) = 1 THEN pieces[1]
    ELSE Join(SubSeq(pieces, 1, Len(pieces) \div 2))
         \o Join(SubSeq(pieces, (Len(pieces) \div 2) + 1, Len(pieces)))

\* the segments, each after a "/"
RECURSIVE Slashed(_)
Slashed(segs) ==
    IF Len(segs) = 0 THEN "" ELSE "/" \o Join(Head(segs)) \o Slashed(Tail(segs))

\* the names, each but the first after ", "
RECURSIVE Listed(_)
Listed(names) ==
    IF Len(names) = 0 THEN ""
    ELSE IF Len(names) = 1 THEN Join(names[1])
    ELSE Join(names[1]) \o ", " \o Listed(Tail(names))

\* the path or the suffix a message names, as it is printed
Printed(arg) ==
    IF Len(arg) = 0 THEN ""
    ELSE IF arg[1] # Root THEN Join(arg[1])
    ELSE IF Len(arg) = 1 THEN "/"
    ELSE Slashed(Tail(arg))

\* the message of an exception or of an error entry as one string; a character
\* a string here cannot hold stands as "U+" and its code point
Text(m) == m.text \o Printed(m.arg) \o Join(m.detail) \o Listed(m.supported)

\* an expected failure: the class of the exception and its message
Failure(type, text) == [type |-> type, text |-> text]

\* an expected return value
Returns(value) == [value |-> value]

\* the list the unsupported-extension message ends with
SupportedText == ".bmp, .gif, .heic, .heif, .jpeg, .jpg, .png, .tif, .tiff, .webp"

\* the failure of a path that fails, by the first stage that fails
FailureOf(p) ==
    IF ~Expands(p)
    THEN IF SegHasNul(PathParts(p)[1]) THEN Failure("ValueError", "embedded null byte")
         ELSE Failure("RuntimeError", "Could not determine home directory.")
    ELSE IF HasNul(Joined(p)) THEN Failure("ValueError", "embedded null byte")
    ELSE LET c == Candidate(p)
         IN  IF Stat(c) = "ENAMETOOLONG"
             THEN Failure("OSError", "[Errno 36] File name too long: '" \o Printed(c) \o "'")
             ELSE IF c \notin Files \cup Dirs
             THEN Failure("OCRError", "File not found: " \o Printed(c))
             ELSE IF c \in Dirs THEN Failure("OCRError", "Path is not a file: " \o Printed(c))
             ELSE Failure("OCRError", "Unsupported extension: " \o Join(Suffix(c))
                                      \o ". Supported: " \o SupportedText)

\* the failures of the paths tried that fail
PathFailures == [p \in RawPaths \ Passing |-> FailureOf(p)]

PathFailure(p) == PathFailures[p]

\* the messages of the paths of a batch that fail
BatchPathMessage(p) ==
    CASE p = <<<<"m", "i", "s", "s", "i", "n", "g", ".", "p", "n", "g">>>> ->
            "File not found: /work/missing.png"
      [] p = <<<<"~">>, <<"s", "c", "a", "n", "s">>>> -> "Path is not a file: /home/scans"
      [] p = <<<<"n", "o", "t", "e", "s", ".", "t", "x", "t">>>> ->
            "Unsupported extension: .txt. Supported: .bmp, .gif, .heic, .heif, .jpeg, .jpg, "
            \o ".png, .tif, .tiff, .webp"
      [] p = <<<<"~", "n", "o", "u", "s", "e", "r">>, <<"a", ".", "p", "n", "g">>>> ->
            "Could not determine home directory."

\* the failure of the exec of item i's helper with `errno`
ExecFailure(i, errno) ==
    LET exe == IF BinaryUsable(FilesAt(i)) THEN ".build/vision_ocr" ELSE "xcrun"
    IN  CASE errno = "ENOENT" ->
                Failure("FileNotFoundError",
                        "[Errno 2] No such file or directory: '" \o exe \o "'")
          [] errno = "ENOEXEC" -> Failure("OSError", "[Errno 8] Exec format error: '" \o exe \o "'")
          [] errno = "EACCES" ->
                Failure("PermissionError", "[Errno 13] Permission denied: '" \o exe \o "'")

\* the message of the UnicodeDecodeError for each byte string tried that is not
\* UTF-8
DecodeMessage(bytes) ==
    CASE bytes = <<"0xff", "0xfe", " ", "b", "o", "o", "m", "\n">> ->
            "'utf-8' codec can't decode byte 0xff in position 0: invalid start byte"
      [] bytes = <<"0xfe", " ", "b", "o", "o", "m">> ->
            "'utf-8' codec can't decode byte 0xfe in position 0: invalid start byte"
      [] bytes = <<"0xc2", "0xa0", "x", "0xfe">> ->
            "'utf-8' codec can't decode byte 0xfe in position 3: invalid start byte"
      [] bytes = <<"0x85">> ->
            "'utf-8' codec can't decode byte 0x85 in position 0: invalid start byte"
      [] bytes = <<"a", "b", "0xc2">> ->
            "'utf-8' codec can't decode byte 0xc2 in position 2: unexpected end of data"
      [] bytes = <<"0xe2", "0x82">> ->
            "'utf-8' codec can't decode bytes in position 0-1: unexpected end of data"
      [] bytes = <<"0xe2", "0x82", "(">> ->
            "'utf-8' codec can't decode bytes in position 0-1: invalid continuation byte"
      [] bytes = <<"0xed", "0xa0", "0x80">> ->
            "'utf-8' codec can't decode byte 0xed in position 0: invalid continuation byte"
      [] bytes = <<"0xc0", "0xaf">> ->
            "'utf-8' codec can't decode byte 0xc0 in position 0: invalid start byte"
      [] bytes = <<"0xf8">> ->
            "'utf-8' codec can't decode byte 0xf8 in position 0: invalid start byte"
      [] bytes = <<"x", "0xf4", "0x90", "0x80", "0x80">> ->
            "'utf-8' codec can't decode byte 0xf4 in position 1: invalid continuation byte"
      [] bytes = <<"a", "b", "0xff">> ->
            "'utf-8' codec can't decode byte 0xff in position 2: invalid start byte"
      [] bytes = <<"{", "0xe2", "0x82">> ->
            "'utf-8' codec can't decode bytes in position 1-2: unexpected end of data"

\* the trimmed text of each byte string tried on standard error that is UTF-8
Diagnostic(bytes) ==
    CASE bytes = <<>> -> ""
      [] bytes = <<" ", "\n">> -> ""
      [] bytes = <<"\r", "\n">> -> ""
      [] bytes = <<"m", "o", "d", "e", "l", " ", "u", "n", "a", "v", "a", "i", "l", "a", "b", "l", "e">> -> "model unavailable"
      [] bytes = <<" ">> \o <<"m", "o", "d", "e", "l", " ", "u", "n", "a", "v", "a", "i", "l", "a", "b", "l", "e">> \o <<"\n">> -> "model unavailable"
      [] bytes = <<"\f">> \o <<"m", "o", "d", "e", "l", " ", "u", "n", "a", "v", "a", "i", "l", "a", "b", "l", "e">> \o <<"0xc2", "0xa0", "\r", "\n">> ->
            "model unavailable"
      [] bytes = <<"l", "i", "n", "e", "1">> \o <<"\r", "\n">> \o <<"l", "i", "n", "e", "2">> \o <<"\r", "\n">> -> "line1\nline2"
      [] bytes = <<"a", "\r", "\r", "\n", "b", "\n", "\r">> -> "a\n\nb"
      [] bytes = <<"a", "\r", "b">> -> "a\nb"
      [] bytes = <<"0xc3", "0xa9", "t", "0xc3", "0xa9">> -> "U+00E9tU+00E9"
      [] bytes = <<"0xe3", "0x80", "0x80", "x", "0xe2", "0x80", "0xa8">> -> "x"
      [] bytes = <<"0x0b", "x", "0x1f">> -> "x"
      [] bytes = <<"0xe2", "0x80", "0x8b", "x", " ">> -> "U+200Bx"
      [] bytes = <<"0xc2", "0x85", " ", "x", " ", "0xc2", "0x85">> -> "x"
      [] bytes = <<"0xf0", "0x9f", "0x98", "0x80">> -> "U+1F600"
      [] bytes = <<"e", "r", "r", "o", "r", ":", " ", "n", "o", " ", "s", "u", "c", "h", " ", "m", "o", "d", "u", "l", "e">> \o <<"\n">> -> "error: no such module"
      [] bytes = <<" ", "0xc2", "0xa0", "\n">> -> ""

\* the message of the JSONDecodeError for each unparseable output tried
InvalidJson(text) ==
    CASE text = "" -> "Expecting value: line 1 column 1 (char 0)"
      [] text = "{" ->
            "Expecting property name enclosed in double quotes: line 1 column 2 (char 1)"

\* what the normalizer gives for each parsed document tried that is no object:
\* 5, 0.9, true, null, "", "ab", [], [1, 2], [["fullText", "hi"]],
\* [["a", 1], ["a", 2]], [["a", 1], []] and [[[], 1]]
NonObjectOutcome(doc) ==
    CASE doc.t = "num" -> Failure("TypeError", "'int' object is not iterable")
      [] doc.t = "real" -> Failure("TypeError", "'float' object is not iterable")
      [] doc.t = "bool" -> Failure("TypeError", "'bool' object is not iterable")
      [] doc.t = "null" -> Failure("TypeError", "'NoneType' object is not iterable")
      [] doc.t = "str" /\ doc.v = "" -> Returns(EmptyDict)
      [] doc.t = "str" /\ doc.v = "ab" ->
            Failure("ValueError",
                    "dictionary update sequence element #0 has length 1; 2 is required")
      [] doc.t = "list" /\ Len(doc.v) = 0 -> Returns(EmptyDict)
      [] doc.t = "list" /\ Len(doc.v) = 2 /\ doc.v[1].t = "num" ->
            Failure("TypeError",
                    "cannot convert dictionary update sequence element #0 to a sequence")
      [] doc.t = "list" /\ Len(doc.v) = 1 /\ doc.v[1].v[1].t = "str" ->
            Returns("full_text" :> JStr("hi"))
      [] doc.t = "list" /\ Len(doc.v) = 2 /\ doc.v[1].t = "list" /\ Len(doc.v[2].v) = 2 ->
            Returns("a" :> JNum(2))
      [] doc.t = "list" /\ Len(doc.v) = 2 /\ doc.v[1].t = "list" /\ Len(doc.v[2].v) = 0 ->
            Failure("ValueError",
                    "dictionary update sequence element #1 has length 0; 2 is required")
      [] doc.t = "list" /\ Len(doc.v) = 1 /\ doc.v[1].v[1].t = "list" ->
            Failure("TypeError", "unhashable type: 'list'")

\* the failure of a helper completion that fails: standard output is read
\* before standard error, and both before the exit code is looked at
HelperFailure(o) ==
    IF "bytes" \in DOMAIN o.stdout /\ ~IsUtf8(o.stdout.bytes)
    THEN Failure("UnicodeDecodeError", DecodeMessage(o.stdout.bytes))
    ELSE IF ~IsUtf8(o.stderr) THEN Failure("UnicodeDecodeError", DecodeMessage(o.stderr))
    ELSE IF o.exit # 0
    THEN Failure("OCRError", IF Diagnostic(o.stderr) = ""
                             THEN "Swift OCR helper failed without stderr output."
                             ELSE Diagnostic(o.stderr))
    ELSE IF ~o.stdout.parses
    THEN Failure("OCRError", "Helper returned invalid JSON: " \o InvalidJson(o.stdout.text))
    ELSE NonObjectOutcome(o.stdout.doc)

\* the errno of the failed exec of item i
RefusedErrno(i) == refused[CHOOSE k \in 1..Len(refused) : refused[k].item = i].errno

\* the failure of item i, an item that fails, by the stage that fails first
ExpectedFailure(i) ==
    IF ~PathChecksPass(call.paths[i]) THEN PathFailure(call.paths[i])
    ELSE IF call.recognition_level \notin { "accurate", "fast" }
    THEN Failure("OCRError", "recognition_level must be one of ['accurate', 'fast']")
    ELSE IF ~ParamsPass THEN Failure("OCRError", "min_confidence must be between 0.0 and 1.0")
    ELSE IF ~HelperAvailable(i)
    THEN Failure("OCRError", "Swift helper script not found: vision_ocr.swift")
    ELSE IF Refused(i) THEN ExecFailure(i, RefusedErrno(i))
    ELSE HelperFailure(finished[SpawnPos(i)])

NamedCheckErrors ==
    { "File not found: ", "Path is not a file: ", "Unsupported extension: ",
      "recognition_level must be one of ['accurate', 'fast']",
      "min_confidence must be between 0.0 and 1.0" }

\* the error a failed local check raises, for a path that can be looked up
CheckErrorText(p) ==
    LET c == Resolved[p]
    IN  IF c \notin Files \cup Dirs THEN { "File not found: " }
        ELSE IF c \in Dirs THEN { "Path is not a file: " }
        ELSE IF ~PathChecksPass(p) THEN { "Unsupported extension: " }
        ELSE { "recognition_level must be one of ['accurate', 'fast']",
               "min_confidence must be between 0.0 and 1.0" }

\* the error of a lookup the system refuses: the class and the message
LookupError(p) ==
    IF ~Expands(p) /\ ~SegHasNul(PathParts(p)[1])
    THEN Failure("RuntimeError", "Could not determine home directory.")
    ELSE IF ~Expands(p) \/ HasNul(Joined(p)) THEN Failure("ValueError", "embedded null byte")
    ELSE Failure("OSError", "[Errno 36] File name too long: '")

\* the exec of command `cmd` was attempted for an item whose checks had passed
AfterChecks(item, cmd) ==
    /\ PathChecksPass(call.paths[item])
    /\ cmd.input = Resolved[call.paths[item]]
    /\ ParamsPass
    /\ cmd.recognition_level = call.recognition_level
    /\ cmd.min_confidence = call.min_confidence

\* nothing was spawned or tried for item i, and the locator was not called for it
NothingSpawned(i) == SpawnPos(i) = 0 /\ ~Refused(i) /\ ~Located(i)

\* C3 as stated: a process is spawned for an item only after its path and its
\* parameters passed the checks, and an item that fails a check fails with
\* NotFound, NotAFile, UnsupportedExtension or InvalidParameter, whichever
\* check it is, and nothing is spawned for it.
Orig_C3 ==
    (IsSingle \/ IsBatch) =>
        /\ \A k \in 1..Len(started) : AfterChecks(started[k].item, started[k].cmd)
        /\ \A k \in 1..Len(refused) : AfterChecks(refused[k].item, refused[k].cmd)
        /\ (IsSingle /\ Done /\ ~(PathChecksPass(call.paths[1]) /\ ParamsPass)) =>
             /\ started = <<>> /\ refused = <<>> /\ located = <<>> /\ finished = <<>>
             /\ ret.kind = "err"
             /\ ret.type = "OCRError"
             /\ ret.text \in (IF CanLookUp(call.paths[1]) THEN CheckErrorText(call.paths[1])
                              ELSE NamedCheckErrors)
        /\ (IsBatch /\ pc \in { "batch", "helper", "done" }) =>
             \A i \in 1..(idx - 1) :
                ~(PathChecksPass(call.paths[i]) /\ ParamsPass) =>
                    /\ NothingSpawned(i)
                    /\ \E k \in 1..Len(errors) :
                         /\ errors[k].path = call.paths[i]
                         /\ errors[k].error.text
                              \in (IF CanLookUp(call.paths[i])
                                   THEN CheckErrorText(call.paths[i])
                                   ELSE NamedCheckErrors)

\* C3 (amended): a process is spawned for an item only after its path and its
\* parameters passed the checks, and for an item that fails a check nothing is
\* spawned; the item fails with NotFound, NotAFile, UnsupportedExtension or
\* InvalidParameter, whichever check it is, when its path can be looked up, and
\* with the error of the lookup when it cannot: RuntimeError for a ~name that
\* names no user, ValueError for a NUL in the path, OSError for a name of more
\* than 255 bytes or a path of 4096 bytes or more.
Thm_C3 ==
    (IsSingle \/ IsBatch) =>
        /\ \A k \in 1..Len(started) : AfterChecks(started[k].item, started[k].cmd)
        /\ \A k \in 1..Len(refused) : AfterChecks(refused[k].item, refused[k].cmd)
        /\ (IsSingle /\ Done /\ ~(PathChecksPass(call.paths[1]) /\ ParamsPass)) =>
             /\ started = <<>> /\ refused = <<>> /\ located = <<>> /\ finished = <<>>
             /\ ret.kind = "err"
             /\ IF CanLookUp(call.paths[1])
                THEN /\ ret.type = "OCRError"
                     /\ ret.text \in CheckErrorText(call.paths[1])
                ELSE /\ ret.type = LookupError(call.paths[1]).type
                     /\ ret.text = LookupError(call.paths[1]).text
        /\ (IsBatch /\ pc \in { "batch", "helper", "done" }) =>
             \A i \in 1..(idx - 1) :
                ~(PathChecksPass(call.paths[i]) /\ ParamsPass) =>
                    /\ NothingSpawned(i)
                    /\ \E k \in 1..Len(errors) :
                         /\ errors[k].path = call.paths[i]
                         /\ errors[k].error.text
                              \in (IF CanLookUp(call.paths[i])
                                   THEN CheckErrorText(call.paths[i])
                                   ELSE { LookupError(call.paths[i]).text })

\* a single call on a name of 256 bytes, which failed with OSError and spawned
\* nothing
Wit_C3 ==
    /\ IsSingle /\ Done
    /\ call.paths[1] = <<LongName>>
    /\ ret.kind = "err" /\ ret.type = "OSError"
    /\ ret.text = "[Errno 36] File name too long: '"
    /\ started = <<>> /\ refused = <<>>

\* the helper's standard output parsed as a JSON document
Parsed(o) == "doc" \in DOMAIN o.stdout

\* the message of a helper that exited non-zero with text on standard error
ExitMessage(o) ==
    IF Diagnostic(o.stderr) = "" THEN "Swift OCR helper failed without stderr output."
    ELSE Diagnostic(o.stderr)

ExpectedFullText(doc) ==
    CASE doc.t \in { "list", "str" } /\ Len(doc.v) = 1 -> "hi"
      [] doc.t \in { "list", "str" } /\ Len(doc.v) # 1 -> ""
      [] doc.t = "obj" /\ doc.v = ScenarioDoc -> "hello"
      [] doc.t = "obj" /\ doc.v # ScenarioDoc /\ "full_text" \in DOMAIN doc.v
           /\ doc.v["full_text"].t = "str" -> "canonical text"
      [] doc.t = "obj" /\ "full_text" \in DOMAIN doc.v /\ doc.v["full_text"].t = "num" -> "5"
      [] doc.t = "obj" /\ "full_text" \in DOMAIN doc.v /\ doc.v["full_text"].t = "null" ->
            "legacy text"
      [] doc.t = "obj" /\ doc.v # ScenarioDoc /\ "full_text" \notin DOMAIN doc.v -> ""

\* C8: ocr_text returns, as a bare string, the full-text field of the result
\* ocr_image produces for the same arguments: the text the helper's document
\* carries under full_text or, when that is absent or null, under fullText
\* ("hello" in the first scenario, "5" for the number 5), and when ocr_image
\* fails for those arguments ocr_text fails with the same error.
Thm_C8 ==
    (Done /\ call.op = "ocr_text") =>
        IF ItemFails(1)
        THEN /\ ret.kind = "err"
             /\ ret.type = ExpectedFailure(1).type
             /\ Text(ret) = ExpectedFailure(1).text
        ELSE /\ ret.kind = "ok"
             /\ ret.value = ExpectedFullText(finished[1].stdout.doc)
             /\ IsDict(finished[1].stdout.doc) =>
                  LET d == finished[1].stdout.doc.v
                      canon == "full_text" \in DOMAIN d /\ d["full_text"].t # "null"
                      legacy == "fullText" \in DOMAIN d /\ d["fullText"].t = "str"
                  IN  /\ (canon /\ d["full_text"].t = "str") => ret.value = d["full_text"].v
                      /\ (canon /\ d["full_text"].t = "num") =>
                            ret.value = ToString(d["full_text"].v)
                      /\ (legacy /\ ~canon) => ret.value = d["fullText"].v
                      /\ (~canon /\ "fullText" \notin DOMAIN d) => ret.value = ""

\* ocr_text on the first scenario's helper output
Wit_C8 ==
    /\ Done /\ call.op = "ocr_text"
    /\ Len(finished) = 1
    /\ finished[1].exit = 0
    /\ finished[1].stdout = JsonText(JObj(ScenarioDoc))
    /\ ret = Ok("hello")

\* the result of an item whose helper printed `doc`: the normalized object, or
\* the empty object for [] and ""
ExpectedResult(doc) ==
    CASE IsDict(doc) -> NormalizeDict(doc.v)
      [] doc.t = "list" /\ Len(doc.v) = 0 -> EmptyDict
      [] doc.t = "str" /\ doc.v = "" -> EmptyDict

IsHelperMissing(e) ==
    e.kind = "err" /\ e.type = "OCRError" /\ e.text = "Swift helper script not found: "

\* the command prefix the files `l` call for
PrefixBy(l) ==
    IF BinaryUsable(l) THEN <<".build/vision_ocr">>
    ELSE <<"xcrun", "swift", "vision_ocr.swift">>

\* the process of item i was started, or tried, and with the command `prefix`
Through(i, prefix) ==
    /\ SpawnPos(i) > 0 \/ Refused(i)
    /\ \A k \in 1..Len(started) : started[k].item = i => started[k].cmd.prefix = prefix
    /\ \A k \in 1..Len(refused) : refused[k].item = i => refused[k].cmd.prefix = prefix

\* every process of the call was started, or tried, with the command `prefix`
AllThrough(prefix) ==
    /\ \A k \in 1..Len(started) : started[k].cmd.prefix = prefix
    /\ \A k \in 1..Len(refused) : refused[k].cmd.prefix = prefix

\* the messages in errors that say the helper is missing
MissingErrors == SelectSeq(errors, LAMBDA e : e.error.text = "Swift helper script not found: ")

\* the locator's choice follows the files at the moment it is called, and an
\* item that fails with HelperMissing spawns nothing
LocatorByFiles ==
    (IsSingle \/ IsBatch) =>
        /\ \A k \in 1..Len(started) : Located(started[k].item)
        /\ \A k \in 1..Len(refused) : Located(refused[k].item)
        /\ \A k \in 1..Len(located) :
             IF ~NothingUsable(located[k])
             THEN Through(located[k].item, PrefixBy(located[k]))
             ELSE SpawnPos(located[k].item) = 0 /\ ~Refused(located[k].item)
        /\ (IsSingle /\ Done /\ IsHelperMissing(ret)) => (started = <<>> /\ refused = <<>>)

\* a compile_helper call has returned after its toolchain exited
Compiling == Done /\ call.op = "compile_helper" /\ toolchain.exit >= 0

\* a compile_helper whose toolchain exited 0 with text on both pipes succeeded
CompileSucceeds ==
    (Compiling /\ toolchain.exit = 0 /\ IsUtf8(toolchain.stdout) /\ IsUtf8(toolchain.stderr)) =>
        /\ ret = Ok([binary |-> ".build/vision_ocr", status |-> "compiled"])
        /\ compiled

\* C10 as stated: the locator returns the binary when it is present and
\* executable, otherwise the interpreter invocation of the script; it fails with
\* HelperMissing only if neither the binary nor the script exists; every
\* recognition call after a successful compile_helper goes through the binary;
\* a compile_helper whose toolchain exits non-zero fails with CompilationError.
Orig_C10 ==
    /\ LocatorByFiles
    /\ CompileSucceeds
    /\ (IsSingle /\ Done /\ IsHelperMissing(ret)) =>
         (Located(1) /\ FilesAt(1).bin = "absent" /\ FilesAt(1).script = FALSE)
    /\ (compiled /\ (IsSingle \/ IsBatch)) =>
         /\ AllThrough(<<".build/vision_ocr">>)
         /\ (IsSingle /\ Done) => ~IsHelperMissing(ret)
    /\ (Compiling /\ toolchain.exit > 0) => (ret.kind = "err" /\ ret.type = "OCRError")

\* C10 (amended): the locator returns the binary when it is present and
\* executable at the moment of its call, otherwise the interpreter invocation of
\* the script; it fails with HelperMissing exactly when the script does not exist
\* and the binary is not both present and executable, so also beside a binary
\* that is not executable; a recognition call after a successful compile_helper
\* goes through the binary for every item at whose turn the binary is still
\* there and executable; a compile_helper whose toolchain exits non-zero fails
\* with CompilationError carrying the trimmed standard error when the
\* toolchain's output is UTF-8, and with UnicodeDecodeError when it is not.
Thm_C10 ==
    /\ LocatorByFiles
    /\ CompileSucceeds
    /\ (IsSingle /\ Done) =>
         (IsHelperMissing(ret)
            <=> (Located(1) /\ NothingUsable(FilesAt(1))))
    /\ (IsBatch /\ pc \in { "batch", "helper", "done" }) =>
         Len(MissingErrors)
           = Cardinality({ k \in 1..Len(located) : NothingUsable(located[k]) })
    /\ (compiled /\ (IsSingle \/ IsBatch)) =>
         \A k \in 1..Len(located) :
            BinaryUsable(located[k]) => Through(located[k].item, <<".build/vision_ocr">>)
    /\ (Compiling /\ toolchain.exit > 0) =>
         /\ ret.kind = "err"
         /\ IF ~IsUtf8(toolchain.stdout)
            THEN ret.type = "UnicodeDecodeError" /\ Text(ret) = DecodeMessage(toolchain.stdout)
            ELSE IF ~IsUtf8(toolchain.stderr)
            THEN ret.type = "UnicodeDecodeError" /\ Text(ret) = DecodeMessage(toolchain.stderr)
            ELSE /\ ret.type = "OCRError"
                 /\ Text(ret) = (IF Diagnostic(toolchain.stderr) = "" THEN "swiftc failed"
                                 ELSE Diagnostic(toolchain.stderr))

\* a recognition call after a compile_helper had succeeded, served through the
\* script because the binary it wrote had been removed by the time of the call
Wit_C10 ==
    /\ compiled
    /\ call.op = "ocr_image" /\ Done
    /\ Located(1) /\ FilesAt(1).bin = "absent"
    /\ Len(started) = 1
    /\ started[1].cmd.prefix = <<"xcrun", "swift", "vision_ocr.swift">>
    /\ ret.kind = "ok"

---------------------------------------------------------------------------
(* Specification of the normalizer applied to generated documents *)

NormInit ==
    /\ nPc = "input"
    /\ nDoc \in GenDocs
    /\ nOut = EmptyDict
    /\ nOut2 = EmptyDict
    /\ ServerInit
    /\ binExists /\ binExec /\ scriptExists

\* normalized = _normalize_payload(doc)
Normalize ==
    /\ nPc = "input"
    /\ nOut' = NormalizeDict(nDoc)
    /\ nPc' = "once"
    /\ UNCHANGED <<nDoc, nOut2>>
    /\ UNCHANGED svars

\* _normalize_payload applied to its own output
NormalizeAgain ==
    /\ nPc = "once"
    /\ nOut2' = NormalizeDict(nOut)
    /\ nPc' = "twice"
    /\ UNCHANGED <<nDoc, nOut>>
    /\ UNCHANGED svars

NormNext == Normalize \/ NormalizeAgain

SpecNorm == NormInit /\ [][NormNext]_vars

---------------------------------------------------------------------------
(* Properties of the normalizer *)

TopPairs == { <<"resolvedPath", "resolved_path">>, <<"lineCount", "line_count">>,
              <<"fullText", "full_text">> }

BboxPairs == { <<"minX", "min_x">>, <<"minY", "min_y">> }

PairKeys(pairs) == { p[1] : p \in pairs } \cup { p[2] : p \in pairs }

\* key k is carried from dict a to dict b unchanged (or absent from both)
SameAt(a, b, k) ==
    /\ k \in DOMAIN a <=> k \in DOMAIN b
    /\ k \in DOMAIN a => a[k] = b[k]

\* dict `out` is dict `in` with each legacy key moved exactly when the legacy key
\* is present and the canonical one absent; keys in `skip` are not compared
RenamedAsClaimed(in, out, pairs, skip) ==
    /\ \A p \in pairs :
         IF p[1] \in DOMAIN in /\ p[2] \notin DOMAIN in
         THEN /\ p[2] \in DOMAIN out
              /\ out[p[2]] = in[p[1]]
              /\ p[1] \notin DOMAIN out
         ELSE SameAt(in, out, p[1]) /\ SameAt(in, out, p[2])
    /\ \A k \in ((DOMAIN in \cup DOMAIN out) \ PairKeys(pairs)) \ skip : SameAt(in, out, k)

HasDictBbox(line) == "bbox" \in DOMAIN line /\ IsDict(line["bbox"])

LineAsClaimed(lin, lout) ==
    /\ IsDict(lout)
    /\ RenamedAsClaimed(lin, lout.v, {}, {"bbox"})
    /\ IF HasDictBbox(lin)
       THEN /\ HasDictBbox(lout.v)
            /\ RenamedAsClaimed(lin["bbox"].v, lout.v["bbox"].v, BboxPairs, {})
       ELSE SameAt(lin, lout.v, "bbox")

HasLinesList(d) == "lines" \in DOMAIN d /\ IsList(d["lines"])

\* the dict elements of a lines list, in their order
DictElems(d) == SelectSeq(d["lines"].v, IsDict)

LinesAsClaimed(in, out) ==
    IF HasLinesList(in)
    THEN /\ HasLinesList(out)
         /\ Len(out["lines"].v) = Len(DictElems(in))
         /\ \A j \in 1..Len(DictElems(in)) :
              LineAsClaimed(DictElems(in)[j].v, out["lines"].v[j])
    ELSE SameAt(in, out, "lines")

\* C7: the normalizer's output is its input with (1) each legacy key moved to its
\* canonical key exactly when the legacy key is present and the canonical key is
\* absent, at top level and inside the bbox of each object element of lines, and
\* (2) the non-object elements of a lines sequence removed, order kept; everything
\* else is unchanged, and the first scenario's document gets full_text "hello",
\* line_count 1 and lines[0].bbox.min_x 0.
Thm_C7 ==
    nPc # "input" =>
        /\ RenamedAsClaimed(nDoc, nOut, TopPairs, {"lines"})
        /\ LinesAsClaimed(nDoc, nOut)
        /\ nDoc = ScenarioDoc =>
             /\ nOut["full_text"] = JStr("hello")
             /\ nOut["line_count"] = JNum(1)
             /\ nOut["lines"].v[1].v["bbox"].v["min_x"] = JNum(0)

\* a normalized document that had a key moved, a key kept beside its canonical
\* twin, and a non-object line dropped before an object line whose bbox keeps
\* minX beside min_x
Wit_C7 ==
    /\ nPc = "once"
    /\ "fullText" \in DOMAIN nDoc /\ "full_text" \notin DOMAIN nDoc
    /\ "resolvedPath" \in DOMAIN nDoc /\ "resolved_path" \in DOMAIN nDoc
    /\ HasLinesList(nDoc)
    /\ Len(nOut["lines"].v) = 1 /\ Len(nDoc["lines"].v) = 2
    /\ "minX" \in DOMAIN nOut["lines"].v[1].v["bbox"].v

\* no pair of `pairs` is keyed both ways in d with two different values
NoConflict(d, pairs) ==
    \A p \in pairs : ~(p[1] \in DOMAIN d /\ p[2] \in DOMAIN d /\ d[p[1]] # d[p[2]])

\* every legacy key of `in` has its canonical key in `out`
CanonicalPresent(in, out, pairs) ==
    \A p \in pairs : p[1] \in DOMAIN in => p[2] \in DOMAIN out

\* C5 as stated: for a document with legacy keys, the output has the canonical
\* key of each and never holds both naming styles of one concept with conflicting
\* values, also when the input carried both keys with different values.
Orig_C5 ==
    nPc # "input" =>
        /\ CanonicalPresent(nDoc, nOut, TopPairs)
        /\ NoConflict(nOut, TopPairs)
        /\ HasLinesList(nOut) =>
             \A j \in 1..Len(nOut["lines"].v) :
                HasDictBbox(nOut["lines"].v[j].v) =>
                    NoConflict(nOut["lines"].v[j].v["bbox"].v, BboxPairs)

\* for each legacy key of `in`: the canonical key is in `out`; when `in` had no
\* canonical key, out's canonical value is in's legacy value and the legacy key is
\* gone; when `in` had both, both are in `out` with the values they had
LegacyResolved(in, out, pairs) ==
    \A p \in pairs :
        p[1] \in DOMAIN in =>
            /\ p[2] \in DOMAIN out
            /\ IF p[2] \in DOMAIN in
               THEN /\ p[1] \in DOMAIN out
                    /\ out[p[1]] = in[p[1]]
                    /\ out[p[2]] = in[p[2]]
               ELSE /\ p[1] \notin DOMAIN out
                    /\ out[p[2]] = in[p[1]]

\* C5 (amended): for a document with legacy keys the canonical key of each is in
\* the output; the legacy key is absent from the output unless the input carried
\* both keys of the concept, and then both pass through with their input values
\* (a conflict in the input stays in the output, the canonical value untouched).
Thm_C5 ==
    nPc # "input" =>
        /\ LegacyResolved(nDoc, nOut, TopPairs)
        /\ HasLinesList(nDoc) =>
             /\ HasLinesList(nOut)
             /\ Len(nOut["lines"].v) = Len(DictElems(nDoc))
             /\ \A j \in 1..Len(DictElems(nDoc)) :
                  HasDictBbox(DictElems(nDoc)[j].v) =>
                      /\ HasDictBbox(nOut["lines"].v[j].v)
                      /\ LegacyResolved(DictElems(nDoc)[j].v["bbox"].v,
                                        nOut["lines"].v[j].v["bbox"].v, BboxPairs)

\* a normalized document whose input carried fullText and full_text with
\* different values, and lineCount alone
Wit_C5 ==
    /\ nPc = "once"
    /\ "fullText" \in DOMAIN nDoc /\ "full_text" \in DOMAIN nDoc
    /\ nDoc["fullText"] # nDoc["full_text"]
    /\ "lineCount" \in DOMAIN nDoc /\ "line_count" \notin DOMAIN nDoc
    /\ "line_count" \in DOMAIN nOut

\* d uses only canonical key names, at top level and in the bbox of its lines
IsCanonical(d) ==
    /\ \A p \in TopPairs : p[1] \notin DOMAIN d
    /\ HasLinesList(d) =>
         \A j \in 1..Len(d["lines"].v) :
            (IsDict(d["lines"].v[j]) /\ HasDictBbox(d["lines"].v[j].v)) =>
                \A p \in BboxPairs : p[1] \notin DOMAIN d["lines"].v[j].v["bbox"].v

\* every element of d's lines sequence is an object
LinesAllObjects(d) ==
    HasLinesList(d) => \A j \in 1..Len(d["lines"].v) : IsDict(d["lines"].v[j])

\* C6 as stated: normalize(normalize(d)) = normalize(d), and an already-canonical
\* document is returned unchanged whatever the elements of its lines are.
Orig_C6 ==
    /\ nPc = "twice" => nOut2 = nOut
    /\ (nPc # "input" /\ IsCanonical(nDoc)) => nOut = nDoc

\* C6 (amended): normalize(normalize(d)) = normalize(d), and an already-canonical
\* document is returned unchanged provided every element of its lines sequence is
\* an object (non-object elements are dropped from canonical documents too).
Thm_C6 ==
    /\ nPc = "twice" => nOut2 = nOut
    /\ (nPc # "input" /\ IsCanonical(nDoc) /\ LinesAllObjects(nDoc)) => nOut = nDoc

\* a canonical document with two object lines, normalized twice
Wit_C6 ==
    /\ nPc = "twice"
    /\ IsCanonical(nDoc)
    /\ HasLinesList(nDoc) /\ Len(nDoc["lines"].v) = 2
    /\ LinesAllObjects(nDoc)
    /\ nDoc["lines"].v[1] # nDoc["lines"].v[2]
    /\ "full_text" \in DOMAIN nDoc

====
